---- MODULE Spec2Model ----
(***************************************************************************)
(* UTM-Tracking: attribution of inbound WhatsApp (Gallabox) messages to    *)
(* stored click sessions, and the export of engaged sessions to a Google   *)
(* sheet.                                                                  *)
(*                                                                         *)
(* The repository holds several revisions of the two programs.  The        *)
(* current deployment is src/unnamed/part_003 (the express server) with    *)
(* src/google-sheets-sync.js (the export); specification Spec models it.   *)
(* Earlier revisions kept in the repository are modelled by the actions    *)
(* whose names start with Legacy, under specification SpecLegacy; the      *)
(* variable rev says which deployment a behaviour is of.                   *)
(*                                                                         *)
(* One store collection (utmClicks of one website) and its sheet are       *)
(* modelled; the second website's collection is handled by the same code   *)
(* and shares no document with the first.                                  *)
(*                                                                         *)
(* The clock ticks every ten minutes (TimeUnitMs).                         *)
(***************************************************************************)
EXTENDS Integers, Sequences, FiniteSets, TLC

\* ------------------------------------------------------------------ bounds
MaxTime == 1          \* the clock runs 0..MaxTime
MaxWebhooks == 2      \* webhook requests in one behaviour
MaxCallbacks == 2     \* listener callbacks that can be in flight together
MaxRows == 2          \* data rows the sheet can hold in the model
MaxFailures == 1      \* injected store / spreadsheet failures in one behaviour
MaxDigits == 4        \* digits of a sender phone in the normalization alone

\* ------------------------------------------------------- program constants
MAX_RETRIES == 3
TimeUnitMs == 10 * 60 * 1000
FiveMinutes == (5 * 60 * 1000) \div TimeUnitMs
ThirtyMinutes == (30 * 60 * 1000) \div TimeUnitMs

\* ------------------------------------------------------------------ values
NoVal == "undefined"          \* a field that is absent, null or undefined
NoTime == 0 - 1                  \* an absent timestamp
NoPhone == <<>>               \* the empty string as a phone number
CountryCode == <<9, 1>>

SessionIds == {"s1", "s2"}    \* the ids the click page sends
GenId(w) == IF w = 1 THEN "g1" ELSE "g2"   \* crypto.randomUUID() of request w
IdOrder == <<"g1", "g2", "s1", "s2">>   \* the store's document order

W == 1..MaxWebhooks
Callbacks == 1..MaxCallbacks

\* event.context: absent, undecodable, or the base64 of a JSON record
NoToken ==
  [present |-> FALSE, valid |-> FALSE, session_id |-> NoVal, source |-> NoVal, hasEngaged |-> NoVal]
BadToken ==
  [present |-> TRUE, valid |-> FALSE, session_id |-> NoVal, source |-> NoVal, hasEngaged |-> NoVal]
Token(sid, src) ==
  [present |-> TRUE, valid |-> TRUE, session_id |-> sid, source |-> src, hasEngaged |-> NoVal]
\* a token whose JSON also carries hasEngaged: false
TokenWithEngaged(sid, src) == [Token(sid, src) EXCEPT !.hasEngaged = "false"]

\* event.whatsapp.from as the channel sends it: <<7>> is "7", <<0, 8>> is "08"
Event(p, t, c, m) ==
  [kind |-> "Message.received", from |-> p, context |-> t, contactId |-> c, text |-> m]

\* the webhook payloads of the model
Events ==
  { Event(<<7>>, Token("s1", "facebook"), "c1", "hi"),
    Event(<<0, 8>>, Token("s1", "facebook"), NoVal, NoVal),
    Event(<<7>>, Token("s2", NoVal), NoVal, "hi"),
    Event(<<7>>, NoToken, "c1", "hi"),
    Event(<<0>>, Token("s1", "facebook"), NoVal, "hi"),
    Event(<<7>>, Token("s1", "direct_message"), NoVal, "hi") }

\* the payloads sent to the earlier revisions
LegacyEvents ==
  { Event(<<7>>, Token("s1", "facebook"), NoVal, "hi"),
    Event(<<7>>, NoToken, NoVal, "hi"),
    Event(<<8>>, NoToken, NoVal, NoVal),
    Event(<<7>>, BadToken, NoVal, "hi"),
    Event(NoPhone, Token("s1", "facebook"), NoVal, "hi"),
    [Event(<<7>>, Token("s1", "facebook"), NoVal, "hi") EXCEPT !.kind = "Message.sent"] }

\* the payloads sent to the second server of src/server.js
Rev2Events ==
  { Event(<<7>>, Token("s1", "facebook"), NoVal, "hi"),
    Event(<<7>>, NoToken, NoVal, "hi"),
    Event(<<0>>, NoToken, NoVal, "hi"),
    Event(NoPhone, NoToken, NoVal, "hi"),
    Event(<<7>>, BadToken, NoVal, "hi"),
    Event(<<7>>, Token(NoVal, "facebook"), NoVal, NoVal),
    Event(<<7>>, TokenWithEngaged("s1", "facebook"), NoVal, "hi") }

\* the payloads sent to the server of src/app/server.js (none carries a
\* conversationId)
AppEvents ==
  { Event(<<7>>, NoToken, "c1", "hi"),
    Event(<<0, 8>>, NoToken, "c1", "hi"),
    Event(<<7>>, NoToken, NoVal, "hi"),
    Event(NoPhone, NoToken, "c1", "hi") }

P000Events ==
  { Event(<<7>>, Token("s1", "facebook"), "c1", "hi"),
    Event(<<7>>, Token("s2", "facebook"), NoVal, "hi") }

\* the payloads sent to the first server of src/server.js when it runs with
\* an earlier export
ExportEvents ==
  { Event(<<7>>, Token("s1", "facebook"), NoVal, "hi"),
    Event(<<8>>, Token("s2", "direct_message"), NoVal, "hi"),
    Event(<<7>>, NoToken, NoVal, NoVal) }

EventsOf(r) ==
  IF r = "current" THEN Events
  ELSE IF r = "p000" THEN P000Events
  ELSE IF r = "rev2" THEN Rev2Events
  ELSE IF r = "app" THEN AppEvents
  ELSE LegacyEvents

VARIABLES
  conv,         \* a document handed to convertToSheetRows and the rows returned
  norm,         \* a sender phone, its normalization and that one's normalization
  cls,          \* a run of scheduledSync whose attempts fail: the errors and the result
  dest,         \* an invocation of syncToSheets over the two databases
  auth,         \* verifyGallabox: the secret cache, each request's header and outcome
  boot,         \* the deferred initialization of the server and the probes answered so far
  row1,         \* row 1 of the sheet: "absent" (no such sheet), "empty", "header" or "data"
  directMessages,  \* the requests whose directMessages document is stored
  budget,       \* the failures that may be injected in this behaviour
  rev,          \* the deployment this behaviour is of
  now,          \* the server clock
  store,        \* utmClicks: document id -> document
  sheet,        \* the data rows of Sheet1, in order
  wPc, wEvent, wSession, wAttr, wUtm, wStatus,   \* webhook requests
  wAfter,       \* the requests that had been answered when this one arrived
  lastWriter,   \* who changed the store last
  sPc, sAttempt, sSnap, sResult,                 \* the scheduled sync
  sErr,         \* the call that threw in the scheduled sync's last failed attempt
  sWait,        \* the delay awaited before the current attempt, in ms
  view,         \* the listener's query result as last delivered
  lPc, lSnap,   \* listener callbacks
  pending,      \* documents with a doc.ref.update in flight (part_000 syncToSheets)
  updFailed,    \* one of those updates was rejected
  nFail         \* failures injected so far

vars == << conv, norm, cls, dest, auth, boot, row1, directMessages, budget, rev, now, store, sheet, wPc, wEvent, wSession, wAttr, wUtm, wStatus,
           wAfter, lastWriter, sPc, sAttempt, sSnap, sResult, sErr, sWait,
           view, lPc, lSnap, pending, updFailed, nFail >>

webVars == << wPc, wEvent, wSession, wAttr, wUtm, wStatus, wAfter >>
schedVars == << sPc, sAttempt, sSnap, sResult, sErr, sWait, pending, updFailed >>
listenVars == << view, lPc, lSnap >>

\* ------------------------------------------------------------------ store
Put(st, id, doc) == [x \in DOMAIN st \cup {id} |-> IF x = id THEN doc ELSE st[x]]

\* server.js /store-click: the document a click creates
ClickDoc(src, t) ==
  [ source |-> src, timestamp |-> t, hasEngaged |-> FALSE, syncedToSheets |-> FALSE,
    phoneNumber |-> NoPhone, engagedAt |-> NoTime, lastSynced |-> NoTime,
    attribution_source |-> NoVal, lastMessage |-> NoVal, contactId |-> NoVal ]

\* ------------------------------------------------- phone normalization
RECURSIVE StripZeros(_)
\* from.replace(/^0+/, '')
StripZeros(p) == IF p # <<>> /\ Head(p) = 0 THEN StripZeros(Tail(p)) ELSE p

StartsWith(p, pre) == Len(p) >= Len(pre) /\ SubSeq(p, 1, Len(pre)) = pre

\* NormalizePhone with the country code put in front of every phone
NormalizePhoneAlwaysPrefixed(raw) ==
  LET senderPhone == StripZeros(raw)
  IN IF senderPhone # <<>> THEN CountryCode \o senderPhone ELSE senderPhone

\* senderPhone, then the country code unless it is already there
NormalizePhone(raw) ==
  LET senderPhone == StripZeros(raw)
  IN IF senderPhone # <<>> /\ ~StartsWith(senderPhone, CountryCode)
       THEN CountryCode \o senderPhone
       ELSE senderPhone

\* no phone has been normalized
NoNorm == [ raw |-> NoPhone, out |-> NoPhone, again |-> NoPhone, done |-> FALSE ]

\* messageContent = event.whatsapp?.text?.body || 'No text content'
MessageContent(e) == IF e.text # NoVal THEN e.text ELSE "No text content"

\* ------------------------------------------------------ the resolver
Pos(id) == CHOOSE i \in 1..Len(IdOrder) : IdOrder[i] = id

\* docs[0] of a query ordered by timestamp descending
Newest(S, st) ==
  CHOOSE id \in S : \A o \in S :
    \/ st[o].timestamp < st[id].timestamp
    \/ st[o].timestamp = st[id].timestamp /\ Pos(o) <= Pos(id)

\* Matching Priority 1: the context parameter
ContextMatch(e) ==
  IF e.context.present /\ e.context.valid /\ e.context.session_id # NoVal
    THEN [sessionId |-> e.context.session_id, utmSource |-> e.context.source,
          attribution |-> "context"]
    ELSE [sessionId |-> NoVal, utmSource |-> "direct_message", attribution |-> "direct"]

\* Matching Priority 2: hasEngaged == false, timestamp >= fiveMinutesAgo
GallaboxIdCandidates(st, t) ==
  { id \in DOMAIN st : ~st[id].hasEngaged /\ st[id].timestamp >= t - FiveMinutes }

\* Matching Priority 3: phoneNumber == normalizedPhone, hasEngaged == false
PhoneCandidates(st, phone) ==
  { id \in DOMAIN st : st[id].phoneNumber = phone /\ ~st[id].hasEngaged }

\* Resolve with the channel-identifier match tried even when the context
\* already gave a session
ResolveIdFirst(e, st, t) ==
  LET phone == NormalizePhone(e.from)
      c == ContextMatch(e)
      byId == e.contactId # NoVal /\ GallaboxIdCandidates(st, t) # {}
      idHit == Newest(GallaboxIdCandidates(st, t), st)
      r2 == IF byId
              THEN [sessionId |-> idHit, utmSource |-> st[idHit].source,
                    attribution |-> "gallabox_id_match"]
              ELSE c
      st2 == IF byId
               THEN [st EXCEPT ![idHit].contactId = e.contactId]
               ELSE st
  IN IF phone = NoPhone
       THEN [status |-> "400", sessionId |-> NoVal, utmSource |-> c.utmSource,
             attribution |-> c.attribution, store |-> st]
     ELSE IF c.utmSource = "direct_message"
       THEN [status |-> "skipped_direct_message", sessionId |-> c.sessionId,
             utmSource |-> c.utmSource, attribution |-> c.attribution, store |-> st]
     ELSE IF r2.sessionId # NoVal
       THEN [status |-> "commit", sessionId |-> r2.sessionId, utmSource |-> r2.utmSource,
             attribution |-> r2.attribution, store |-> st2]
     ELSE [status |-> "processed", sessionId |-> "not_matched", utmSource |-> r2.utmSource,
           attribution |-> r2.attribution, store |-> st2]

\* Resolve without the early return for an event that has no context session
ResolveWithoutSkip(e, st, t) ==
  LET phone == NormalizePhone(e.from)
      c == ContextMatch(e)
      byId == c.sessionId = NoVal /\ e.contactId # NoVal
              /\ GallaboxIdCandidates(st, t) # {}
      idHit == Newest(GallaboxIdCandidates(st, t), st)
      r2 == IF byId
              THEN [sessionId |-> idHit, utmSource |-> st[idHit].source,
                    attribution |-> "gallabox_id_match"]
              ELSE c
      st2 == IF byId
               THEN [st EXCEPT ![idHit].contactId = e.contactId]
               ELSE st
  IN IF phone = NoPhone
       THEN [status |-> "400", sessionId |-> NoVal, utmSource |-> c.utmSource,
             attribution |-> c.attribution, store |-> st]
     ELSE IF r2.sessionId # NoVal
       THEN [status |-> "commit", sessionId |-> r2.sessionId, utmSource |-> r2.utmSource,
             attribution |-> r2.attribution, store |-> st2]
     ELSE [status |-> "processed", sessionId |-> "not_matched", utmSource |-> r2.utmSource,
           attribution |-> r2.attribution, store |-> st2]

\* The webhook handler from the request to the commit transaction: the status
\* it answers with when it returns early, the session it resolved, and the
\* store as the matching left it.
Resolve(e, st, t) ==
  LET phone == NormalizePhone(e.from)
      c == ContextMatch(e)
      byId == c.sessionId = NoVal /\ e.contactId # NoVal
              /\ GallaboxIdCandidates(st, t) # {}
      idHit == Newest(GallaboxIdCandidates(st, t), st)
      r2 == IF byId
              THEN [sessionId |-> idHit, utmSource |-> st[idHit].source,
                    attribution |-> "gallabox_id_match"]
              ELSE c
      st2 == IF byId
               THEN [st EXCEPT ![idHit].contactId = e.contactId]
               ELSE st
      byPhone == r2.sessionId = NoVal /\ PhoneCandidates(st2, phone) # {}
      phoneHit == Newest(PhoneCandidates(st2, phone), st2)
      r3 == IF byPhone
              THEN [sessionId |-> phoneHit, utmSource |-> st2[phoneHit].source,
                    attribution |-> "phone_match"]
              ELSE r2
  IN IF phone = NoPhone
       THEN [status |-> "400", sessionId |-> NoVal, utmSource |-> c.utmSource,
             attribution |-> c.attribution, store |-> st]
     ELSE IF c.utmSource = "direct_message"
       THEN [status |-> "skipped_direct_message", sessionId |-> c.sessionId,
             utmSource |-> c.utmSource, attribution |-> c.attribution, store |-> st]
     ELSE IF r3.sessionId # NoVal
       THEN [status |-> "commit", sessionId |-> r3.sessionId, utmSource |-> r3.utmSource,
             attribution |-> r3.attribution, store |-> st2]
     ELSE [status |-> "processed", sessionId |-> "not_matched", utmSource |-> r3.utmSource,
           attribution |-> r3.attribution, store |-> st2]

\* updateData applied to an existing document
UpdateDoc(d, e, attr, t) ==
  [d EXCEPT !.hasEngaged = TRUE,
            !.phoneNumber = NormalizePhone(e.from),
            !.engagedAt = t,
            !.syncedToSheets = FALSE,
            !.attribution_source = attr,
            !.contactId = e.contactId,
            !.lastMessage = MessageContent(e)]

\* { ...utmData, website, ...updateData, timestamp } for a missing document
CreateDoc(utmSource, e, attr, t) ==
  UpdateDoc(ClickDoc(utmSource, t), e, attr, t)

\* the commit transaction: update when the document exists, set otherwise
CommitTransaction(st, id, utmSource, e, attr, t) ==
  IF id \in DOMAIN st
    THEN [st EXCEPT ![id] = UpdateDoc(st[id], e, attr, t)]
    ELSE Put(st, id, CreateDoc(utmSource, e, attr, t))

\* ------------------------------------------------------------- the export
\* Unsynced without the hasEngaged filter
UnsyncedAnyEngagement(st) ==
  { id \in DOMAIN st : ~st[id].syncedToSheets
                       /\ st[id].source # NoVal /\ st[id].source # "direct_message" }

\* hasEngaged == true, syncedToSheets == false, source != 'direct_message'
\* (an inequality filter matches only documents that have the field)
Unsynced(st) ==
  { id \in DOMAIN st : st[id].hasEngaged /\ ~st[id].syncedToSheets
                       /\ st[id].source # NoVal /\ st[id].source # "direct_message" }

\* the rows of a snapshot, in document order; a row is written here as the id
\* of the document it was made from
ConvertToSheetRows(snap, st) ==
  SelectSeq(IdOrder, LAMBDA id : id \in snap /\ st[id].source # "direct_message")

\* batch.update(doc.ref, { syncedToSheets: true, lastSynced }) for each document
MarkSynced(st, snap, t) ==
  [id \in DOMAIN st |->
     IF id \in snap /\ st[id].source # "direct_message"
       THEN [st[id] EXCEPT !.syncedToSheets = TRUE, !.lastSynced = t]
       ELSE st[id]]

\* the listener's query result: the matching documents with their contents
View(st) == [id \in Unsynced(st) |-> st[id]]

\* ----------------------------------------------- the scheduled sync's result
NoCount == 0 - 1
\* no result yet
NoResult == [success |-> NoVal, count |-> NoCount, error |-> NoVal]
\* syncDatabaseToSheet: return { count }; part_000: { success: true, syncedCount }
CountResult(n) ==
  [success |-> IF rev = "current" THEN NoVal ELSE "true", count |-> n, error |-> NoVal]
\* syncToSheets' catch: return results, still { success: false };
\* part_000's and src/app's scheduledSync: { success: false, syncedCount: 0,
\* error }; part_006's: { success: false, error }
FailureResult ==
  IF rev = "current"
    THEN [success |-> "false", count |-> NoCount, error |-> NoVal]
  ELSE IF rev = "p006"
    THEN [success |-> "false", count |-> NoCount, error |-> "Sheets sync failed"]
    ELSE [success |-> "false", count |-> 0, error |-> "Final sync failure"]

\* setTimeout(resolve, attempt * 2000)
BackoffMs == 2000

\* ------------------------------------------------------ convertToSheetRows
\* a document as convertToSheetRows reads it; a field that is missing is
\* NoVal, a missing original_params has every field missing
NoParams ==
  [ source |-> NoVal, medium |-> NoVal, campaign |-> NoVal, content |-> NoVal,
    placement |-> NoVal ]

SheetDocs ==
  [ click_time : {NoVal, "T0"}, timestamp : {NoVal, "T1"},
    phoneNumber : {NoVal, "917"},
    source : {NoVal, "facebook", "direct_message"},
    medium : {NoVal, "fb_ads"}, campaign : {NoVal, "sale"},
    content : {NoVal, "video"}, placement : {NoVal, "feed"},
    original_params : {NoParams, [NoParams EXCEPT !.source = "google", !.medium = "cpc"]},
    hasEngaged : {"true"},
    engagedAt : {NoVal, "T1"}, attribution_source : {NoVal, "context"},
    contactId : {NoVal, "c1"}, conversationId : {NoVal, "v1"},
    contactName : {NoVal, "Ann"}, lastMessage : {NoVal, "a\nb"} ]

EmptyDoc ==
  [ click_time |-> NoVal, timestamp |-> NoVal, phoneNumber |-> NoVal, source |-> NoVal,
    medium |-> NoVal, campaign |-> NoVal, content |-> NoVal, placement |-> NoVal,
    original_params |-> NoParams, hasEngaged |-> "true", engagedAt |-> NoVal,
    attribution_source |-> NoVal, contactId |-> NoVal, conversationId |-> NoVal,
    contactName |-> NoVal, lastMessage |-> NoVal ]

NoConv == [ doc |-> EmptyDoc, rows |-> << >>, done |-> FALSE ]

\* a || b
Or(a, b) == IF a \in {NoVal, ""} THEN b ELSE a

\* toDate().toISOString(); "T9" is the time of the conversion, new Date()
ToISOString(t) ==
  IF t = "T0" THEN "1970-01-01T00:00:00.000Z"
  ELSE IF t = "T1" THEN "1970-01-01T00:10:00.000Z"
  ELSE "1970-01-01T01:30:00.000Z"

\* replace(/\n/g, ' ')
ReplaceNewlines(str) == IF str = "a\nb" THEN "a b" ELSE str

\* data.hasEngaged ? 'YES' : 'NO'
EngagedCell(data) == IF data.hasEngaged = "true" THEN "YES" ELSE "NO"

\* src/google-sheets-sync.js: no row for a direct message, else 14 columns
\* (every text of the model is shorter than the substring limits)
ConvertCurrent(data) ==
  IF data.source = "direct_message" THEN << >>
  ELSE << << ToISOString(Or(data.click_time, Or(data.timestamp, "T9"))),
             Or(data.phoneNumber, "N/A"),
             Or(data.original_params.source, Or(data.source, "direct")),
             Or(data.original_params.medium, Or(data.medium, "organic")),
             Or(data.original_params.campaign, Or(data.campaign, "none")),
             Or(data.original_params.content, Or(data.content, "none")),
             Or(data.original_params.placement, Or(data.placement, "N/A")),
             EngagedCell(data),
             IF data.engagedAt # NoVal THEN ToISOString(data.engagedAt) ELSE "N/A",
             Or(data.attribution_source, "unknown"),
             Or(data.contactId, "N/A"),
             Or(data.conversationId, "N/A"),
             Or(data.contactName, "Anonymous"),
             ReplaceNewlines(Or(data.lastMessage, "No text")) >> >>

\* getField(fieldPath, defaultValue = 'N/A') of src/app/google-sheets-sync.js
GetField(value) == IF value = NoVal THEN "N/A" ELSE value

\* src/app/google-sheets-sync.js: 14 columns for every document
ConvertApp(data) ==
  << << ToISOString(Or(data.click_time, Or(data.timestamp, "T9"))),
        Or(data.phoneNumber, "N/A"),
        Or(GetField(data.original_params.source), Or(data.source, "direct")),
        Or(GetField(data.original_params.medium), Or(data.medium, "organic")),
        Or(GetField(data.original_params.campaign), Or(data.campaign, "none")),
        Or(GetField(data.original_params.content), Or(data.content, "none")),
        Or(GetField(data.original_params.placement), Or(data.placement, "N/A")),
        EngagedCell(data),
        IF data.engagedAt # NoVal THEN ToISOString(data.engagedAt) ELSE "N/A",
        Or(data.attribution_source, "unknown"),
        Or(data.contactId, "N/A"),
        Or(data.conversationId, "N/A"),
        Or(data.contactName, "Anonymous"),
        IF data.lastMessage \in {NoVal, ""} THEN ""
                                             ELSE ReplaceNewlines(data.lastMessage) >> >>

\* part_006: 9 columns for every document; undefined + '' is the text
\* 'undefined'
ConvertP006(data) ==
  << << ToISOString(Or(data.timestamp, "T9")),
        Or(data.phoneNumber, "N/A"),
        Or(data.source, "Unknown"),
        Or(data.medium, "Unknown"),
        Or(data.campaign, "Unnamed Campaign"),
        Or(data.content, "No Content"),
        EngagedCell(data),
        IF data.engagedAt # NoVal THEN ToISOString(data.engagedAt) ELSE "N/A",
        IF data.lastMessage = NoVal THEN "'undefined'" ELSE Or(data.lastMessage, "") >> >>

\* getNestedValue(data, possiblePaths, defaultValue) of part_001: the first
\* value that is not undefined, null or '' among those of the paths
RECURSIVE GetNestedValue(_, _)
GetNestedValue(values, defaultValue) ==
  IF values = << >> THEN defaultValue
  ELSE IF Head(values) \notin {NoVal, ""} THEN Head(values)
  ELSE GetNestedValue(Tail(values), defaultValue)

\* part_001: 14 columns for every document; the documents of the model have
\* no campaign_source, adset_name, campaign_name or ad_name in original_params
\* and no original_params nested in original_params
ConvertP001(data) ==
  << << ToISOString(Or(data.click_time, Or(data.timestamp, "T9"))),
        Or(data.phoneNumber, "N/A"),
        GetNestedValue(<< NoVal, NoVal, data.source >>, "direct"),
        GetNestedValue(<< data.original_params.medium, NoVal, NoVal, data.medium >>, "organic"),
        GetNestedValue(<< data.original_params.campaign, NoVal, NoVal, data.campaign >>, "none"),
        GetNestedValue(<< data.original_params.content, NoVal, NoVal, data.content >>, "none"),
        GetNestedValue(<< data.original_params.placement, NoVal, data.placement >>, "N/A"),
        EngagedCell(data),
        IF data.engagedAt # NoVal THEN ToISOString(data.engagedAt) ELSE "N/A",
        Or(data.attribution_source, "unknown"),
        Or(data.contactId, "N/A"),
        Or(data.conversationId, "N/A"),
        Or(data.contactName, "Anonymous"),
        IF data.lastMessage \in {NoVal, ""} THEN ""
                                             ELSE ReplaceNewlines(data.lastMessage) >> >>

\* convertToSheetRows([doc]) of the deployment
ConvertDoc(data) ==
  IF rev = "current" THEN ConvertCurrent(data)
  ELSE IF rev = "p006" THEN ConvertP006(data)
  ELSE IF rev = "p001" THEN ConvertP001(data)
  ELSE ConvertApp(data)

\* ---------------------------------------------------------- deployments
\* part_003 is the server of both; google-sheets-sync.js exports in "current",
\* its earlier revision part_000 in "p000"
Part003Server == {"current", "p000"}

\* the first server of src/server.js requires './google-sheets-sync' for its
\* scheduledSync: alone in "rev1", with src/app/google-sheets-sync.js in
\* "appSync", with part_006 in "p006"
Rev1Server == {"rev1", "appSync", "p006"}

\* ------------------------------------------ the errors of a failed attempt
\* err.code and the words of err.message
NoMessage == << >>

NoError == [code |-> NoVal, message |-> NoMessage]

Messages ==
  { << "quota", "exceeded" >>, << "Quota", "exceeded" >>,
    << "Rate", "Limit", "Exceeded" >>, << "socket", "hang", "up" >> }

Errors == [ code : {NoVal, "429", "500"}, message : Messages ]

\* message.includes(word)
Includes(message, word) == \E i \in 1..Len(message) : message[i] = word

NoCls ==
  [attempt |-> 0, err |-> NoError, thrown |-> NoError, done |-> FALSE,
   success |-> NoVal, error |-> NoMessage, retryable |-> NoVal]

\* ------------------------------------------------------ verifyGallabox
\* the secret 'gallabox-token' and the x-gallabox-token headers of the model:
\* NoVal is a request without the header
GallaboxToken == "secret"

Headers == {NoVal, "wrong", GallaboxToken}

\* every request went through the middleware to next()
Passed ==
  [cached |-> TRUE, token |-> [w \in W |-> GallaboxToken], pass |-> [w \in W |-> "next"]]

\* ---------------------------------------------- the two destinations
\* the databases of syncToSheets, in the order it goes through them
Databases == << "americanhairline", "alchemane" >>

DatabaseSet == { Databases[i] : i \in 1..Len(Databases) }

\* results = { americanhairline: { success: false }, alchemane: { success: false } }
NoDest ==
  [env |-> {}, db |-> 1, attempt |-> 0, err |-> NoVal, attempted |-> {},
   results |-> [d \in DatabaseSet |-> [success |-> "false", count |-> NoCount]],
   returned |-> FALSE]

\* ------------------------------------------------ the server's start-up
\* the endpoints of the deferred initialization, in the order of part_003
Endpoints == << "/gallabox-webhook", "/store-click", "/scheduled-sync" >>

EndpointSet == { Endpoints[i] : i \in 1..Len(Endpoints) }

NoProbes == [ep \in EndpointSet |-> NoVal]

\* the initialization that completed: every endpoint registered
Booted ==
  [pc |-> "ready", attempt |-> 1, connected |-> TRUE, waited |-> 0,
   endpoints |-> EndpointSet, listening |-> TRUE, probes |-> NoProbes]

\* ------------------------------------------------------------------- Init
InitState ==
  /\ directMessages = {}
  /\ now = 0
  /\ store = << >>
  /\ sheet = << >>
  /\ wPc = [w \in W |-> "idle"]
  /\ wEvent = [w \in W |-> Event(NoPhone, NoToken, NoVal, NoVal)]
  /\ wSession = [w \in W |-> NoVal]
  /\ wAttr = [w \in W |-> NoVal]
  /\ wUtm = [w \in W |-> NoVal]
  /\ wStatus = [w \in W |-> NoVal]
  /\ wAfter = [w \in W |-> {}]
  /\ lastWriter = 0
  /\ sPc = "idle"
  /\ sAttempt = 0
  /\ sSnap = {}
  /\ sResult = NoResult
  /\ sErr = NoVal
  /\ sWait = 0
  /\ pending = {}
  /\ updFailed = FALSE
  /\ view = << >>
  /\ lPc = [cb \in Callbacks |-> "idle"]
  /\ lSnap = [cb \in Callbacks |-> {}]
  /\ nFail = 0

InitCommon == conv = NoConv /\ norm = NoNorm /\ cls = NoCls /\ boot = Booted /\ dest = NoDest /\ auth = Passed /\ row1 = "empty" /\ InitState

Init == rev = "current" /\ budget = MaxFailures /\ InitCommon

\* the server clock advances
Tick ==
  /\ now < MaxTime
  /\ now' = now + 1
  /\ UNCHANGED << conv, norm, cls, dest, auth, boot, row1, rev, budget, directMessages, store, sheet, webVars, lastWriter, schedVars,
                  listenVars, nFail >>

\* --------------------------------------------- POST /store-click (part_003)
\* source: params.source || rawData.source || 'facebook'
ClickSource(src) == IF src # NoVal THEN src ELSE "facebook"

\* the transaction: the document is written only when it does not exist
StoreClickTransaction(st, id, src, t) ==
  IF id \in DOMAIN st THEN st ELSE Put(st, id, ClickDoc(ClickSource(src), t))

StoreClick(id, src) ==
  /\ rev \in Part003Server
  /\ IF id = NoVal \/ src = "direct_message"
       THEN UNCHANGED << store, lastWriter >>
       ELSE /\ store' = StoreClickTransaction(store, id, src, now)
            /\ lastWriter' = IF store' # store THEN 0 ELSE lastWriter
  /\ UNCHANGED << conv, norm, cls, dest, auth, boot, row1, rev, budget, directMessages, now, sheet, webVars, schedVars, listenVars, nFail >>

\* ------------------------------------------ POST /gallabox-webhook (part_003)
Answered == { w \in W : wPc[w] = "done" }

\* the request arrives and runs to the commit transaction or to an early answer
WebhookReceive(w, e) ==
  /\ rev \in Part003Server
  /\ wPc[w] = "idle"
  /\ \A v \in W : v < w => wPc[v] # "idle"
  /\ LET r == Resolve(e, store, now)
     IN /\ wEvent' = [wEvent EXCEPT ![w] = e]
        /\ wSession' = [wSession EXCEPT ![w] = r.sessionId]
        /\ wAttr' = [wAttr EXCEPT ![w] = r.attribution]
        /\ wUtm' = [wUtm EXCEPT ![w] = r.utmSource]
        /\ wAfter' = [wAfter EXCEPT ![w] = Answered]
        /\ store' = r.store
        /\ lastWriter' = IF r.store # store THEN w ELSE lastWriter
        /\ IF r.status = "commit"
             THEN /\ wPc' = [wPc EXCEPT ![w] = "commit"]
                  /\ UNCHANGED wStatus
             ELSE /\ wPc' = [wPc EXCEPT ![w] = "done"]
                  /\ wStatus' = [wStatus EXCEPT ![w] = r.status]
  /\ UNCHANGED << conv, norm, cls, dest, auth, boot, row1, rev, budget, directMessages, now, sheet, schedVars, listenVars, nFail >>

\* runTransaction succeeds and the handler answers 200
WebhookCommit(w) ==
  /\ rev \in Part003Server
  /\ wPc[w] = "commit"
  /\ store' = CommitTransaction(store, wSession[w], wUtm[w], wEvent[w], wAttr[w], now)
  /\ lastWriter' = w
  /\ wPc' = [wPc EXCEPT ![w] = "done"]
  /\ wStatus' = [wStatus EXCEPT ![w] = "processed"]
  /\ UNCHANGED << conv, norm, cls, dest, auth, boot, row1, rev, budget, directMessages, now, sheet, wEvent, wSession, wAttr, wUtm, wAfter,
                  schedVars, listenVars, nFail >>

\* runTransaction throws and the handler answers 500
WebhookCommitFails(w) ==
  /\ rev \in Part003Server
  /\ wPc[w] = "commit"
  /\ nFail < budget
  /\ nFail' = nFail + 1
  /\ wPc' = [wPc EXCEPT ![w] = "done"]
  /\ wStatus' = [wStatus EXCEPT ![w] = "500"]
  /\ UNCHANGED << conv, norm, cls, dest, auth, boot, row1, rev, budget, directMessages, now, store, sheet, wEvent, wSession, wAttr, wUtm, wAfter,
                  lastWriter, schedVars, listenVars >>

\* ------------------------------- syncDatabaseToSheet (google-sheets-sync.js)
\* Catch with the same delay after every failed attempt
CatchConstantBackoff ==
  /\ sSnap' = {}
  /\ sErr' = sPc
  /\ IF sAttempt + 1 >= MAX_RETRIES
       THEN sPc' = "idle" /\ sResult' = FailureResult /\ sAttempt' = 0 /\ sWait' = 0
       ELSE sPc' = "setup" /\ UNCHANGED sResult /\ sAttempt' = sAttempt + 1
            /\ sWait' = BackoffMs

\* the catch block: count the attempt, give up after MAX_RETRIES
Catch ==
  /\ sSnap' = {}
  /\ sErr' = sPc
  /\ IF sAttempt + 1 >= MAX_RETRIES
       THEN sPc' = "idle" /\ sResult' = FailureResult /\ sAttempt' = 0 /\ sWait' = 0
       ELSE sPc' = "setup" /\ UNCHANGED sResult /\ sAttempt' = sAttempt + 1
            /\ sWait' = (sAttempt + 1) * BackoffMs

\* an awaited call of the scheduled sync throws
\* ensureSheetExists: addSheet when no sheet has the title, then the header
\* is written to A1:N1 when values.get returns nothing for that range
EnsureSheetExists(r) == IF r \in {"absent", "empty"} THEN "header" ELSE r

\* row 1 after spreadsheets.values.append: the rows go below the last row of
\* the table, into row 1 when the sheet is empty
AppendRows(r) == IF r = "empty" THEN "data" ELSE r

SyncCatch ==
  /\ nFail < budget
  /\ nFail' = nFail + 1
  /\ Catch
  /\ UNCHANGED << pending, updFailed >>

\* POST /scheduled-sync calls syncToSheets
SyncStart ==
  /\ rev = "current"
  /\ sPc = "idle"
  /\ sPc' = "setup"
  /\ sAttempt' = 0
  /\ sSnap' = {}
  /\ sResult' = NoResult
  /\ sErr' = NoVal
  /\ sWait' = 0
  /\ UNCHANGED << conv, norm, cls, dest, auth, boot, row1, rev, budget, directMessages, now, store, sheet, webVars, lastWriter, listenVars, pending,
                  updFailed, nFail >>

\* initializeSheetsClient and ensureSheetExists
SyncSetup ==
  /\ rev = "current"
  /\ sPc = "setup"
  /\ sPc' = "query"
  /\ row1' = EnsureSheetExists(row1)
  /\ UNCHANGED << conv, norm, cls, dest, auth, boot, rev, budget, directMessages, now, store, sheet, webVars, lastWriter, sAttempt, sSnap,
                  sResult, sErr, sWait, pending, updFailed, listenVars, nFail >>

SyncSetupFails ==
  /\ rev = "current"
  /\ sPc = "setup"
  /\ SyncCatch
  /\ UNCHANGED << conv, norm, cls, dest, auth, boot, row1, rev, budget, directMessages, now, store, sheet, webVars, lastWriter, listenVars >>

\* the query, the rows and the batch
SyncQuery ==
  /\ rev = "current"
  /\ sPc = "query"
  /\ IF Unsynced(store) = {} \/ ConvertToSheetRows(Unsynced(store), store) = << >>
       THEN sPc' = "idle" /\ sResult' = CountResult(0) /\ sAttempt' = 0
            /\ sErr' = NoVal /\ sWait' = 0
            /\ UNCHANGED sSnap
       ELSE sPc' = "append" /\ sSnap' = Unsynced(store)
            /\ UNCHANGED << sResult, sAttempt, sErr, sWait >>
  /\ UNCHANGED << conv, norm, cls, dest, auth, boot, row1, rev, budget, directMessages, now, store, sheet, webVars, lastWriter,
                  listenVars, pending, updFailed, nFail >>

SyncQueryFails ==
  /\ rev = "current"
  /\ sPc = "query"
  /\ SyncCatch
  /\ UNCHANGED << conv, norm, cls, dest, auth, boot, row1, rev, budget, directMessages, now, store, sheet, webVars, lastWriter, listenVars >>

\* spreadsheets.values.append
SyncAppend ==
  /\ rev = "current"
  /\ sPc = "append"
  /\ Len(sheet) + Len(ConvertToSheetRows(sSnap, store)) <= MaxRows
  /\ sheet' = sheet \o ConvertToSheetRows(sSnap, store)
  /\ row1' = AppendRows(row1)
  /\ sPc' = "commit"
  /\ UNCHANGED << conv, norm, cls, dest, auth, boot, rev, budget, directMessages, now, store, webVars, lastWriter, sAttempt, sSnap,
                  sResult, sErr, sWait, pending, updFailed, listenVars, nFail >>

\* SyncAppendFails with the batch committed although the append threw
SyncAppendFailsAfterMarking ==
  /\ rev = "current"
  /\ sPc = "append"
  /\ SyncCatch
  /\ store' = MarkSynced(store, sSnap, now)
  /\ lastWriter' = 0
  /\ UNCHANGED << conv, norm, cls, dest, auth, boot, row1, rev, budget, directMessages, now, sheet, webVars, listenVars >>

SyncAppendFails ==
  /\ rev = "current"
  /\ sPc = "append"
  /\ SyncCatch
  /\ UNCHANGED << conv, norm, cls, dest, auth, boot, row1, rev, budget, directMessages, now, store, sheet, webVars, lastWriter, listenVars >>

\* batch.commit
SyncCommit ==
  /\ rev = "current"
  /\ sPc = "commit"
  /\ store' = MarkSynced(store, sSnap, now)
  /\ lastWriter' = 0
  /\ sPc' = "idle"
  /\ sResult' = CountResult(Len(ConvertToSheetRows(sSnap, store)))
  /\ sSnap' = {}
  /\ sAttempt' = 0
  /\ sErr' = NoVal
  /\ sWait' = 0
  /\ UNCHANGED << conv, norm, cls, dest, auth, boot, row1, rev, budget, directMessages, now, sheet, webVars, listenVars, pending, updFailed, nFail >>

SyncCommitFails ==
  /\ rev = "current"
  /\ sPc = "commit"
  /\ SyncCatch
  /\ UNCHANGED << conv, norm, cls, dest, auth, boot, row1, rev, budget, directMessages, now, store, sheet, webVars, lastWriter, listenVars >>

\* ---------------------------------- setupRealtimeSync (google-sheets-sync.js)
FreeCallback == CHOOSE cb \in Callbacks : lPc[cb] = "idle"

\* the store delivers a snapshot of the query; the callback starts unless the
\* snapshot is empty
SnapshotDelivered ==
  /\ rev = "current"
  /\ View(store) # view
  /\ view' = View(store)
  /\ IF Unsynced(store) = {}
       THEN UNCHANGED << lPc, lSnap >>
       ELSE /\ \E cb \in Callbacks : lPc[cb] = "idle"
            /\ lPc' = [lPc EXCEPT ![FreeCallback] = "append"]
            /\ lSnap' = [lSnap EXCEPT ![FreeCallback] = Unsynced(store)]
  /\ UNCHANGED << conv, norm, cls, dest, auth, boot, row1, rev, budget, directMessages, now, store, sheet, webVars, lastWriter, schedVars, nFail >>

\* initializeSheetsClient, ensureSheetExists, the rows, then
\* spreadsheets.values.append
ListenAppend(cb) ==
  /\ rev = "current"
  /\ lPc[cb] = "append"
  /\ Len(sheet) + Len(ConvertToSheetRows(lSnap[cb], store)) <= MaxRows
  /\ sheet' = sheet \o ConvertToSheetRows(lSnap[cb], store)
  /\ row1' = AppendRows(EnsureSheetExists(row1))
  /\ lPc' = [lPc EXCEPT ![cb] = "commit"]
  /\ UNCHANGED << conv, norm, cls, dest, auth, boot, rev, budget, directMessages, now, store, webVars, lastWriter, schedVars,
                  view, lSnap, nFail >>

\* batch.commit
ListenCommit(cb) ==
  /\ rev = "current"
  /\ lPc[cb] = "commit"
  /\ store' = MarkSynced(store, lSnap[cb], now)
  /\ lastWriter' = 0
  /\ lPc' = [lPc EXCEPT ![cb] = "idle"]
  /\ lSnap' = [lSnap EXCEPT ![cb] = {}]
  /\ UNCHANGED << conv, norm, cls, dest, auth, boot, row1, rev, budget, directMessages, now, sheet, webVars, schedVars, view, nFail >>

\* any await of the callback throws: the catch block logs and the callback ends
ListenFails(cb) ==
  /\ rev = "current"
  /\ lPc[cb] \in {"append", "commit"}
  /\ nFail < budget
  /\ nFail' = nFail + 1
  /\ lPc' = [lPc EXCEPT ![cb] = "idle"]
  /\ lSnap' = [lSnap EXCEPT ![cb] = {}]
  /\ UNCHANGED << conv, norm, cls, dest, auth, boot, row1, rev, budget, directMessages, now, store, sheet, webVars, lastWriter, schedVars, view >>

\* ------------------------------------------------------------------- Next
Next ==
  \/ Tick
  \/ \E id \in SessionIds \cup {NoVal}, src \in {NoVal, "direct_message"} : StoreClick(id, src)
  \/ \E w \in W, e \in EventsOf(rev) : WebhookReceive(w, e)
  \/ \E w \in W : WebhookCommit(w)
  \/ \E w \in W : WebhookCommitFails(w)
  \/ SyncStart
  \/ SyncSetup
  \/ SyncSetupFails
  \/ SyncQuery
  \/ SyncQueryFails
  \/ SyncAppend
  \/ SyncAppendFails
  \/ SyncCommit
  \/ SyncCommitFails
  \/ SnapshotDelivered
  \/ \E cb \in Callbacks : ListenAppend(cb)
  \/ \E cb \in Callbacks : ListenCommit(cb)
  \/ \E cb \in Callbacks : ListenFails(cb)

Spec == Init /\ [][Next]_vars

\* --------------------------------------- the scheduled sync under failures
\* the current deployment with enough failures to exhaust one run's retries
\* the sheet of the title may not exist yet
InitRetry ==
  /\ rev = "current"
  /\ budget = MAX_RETRIES
  /\ conv = NoConv
  /\ norm = NoNorm
  /\ cls = NoCls
  /\ boot = Booted /\ dest = NoDest /\ auth = Passed
  /\ row1 \in {"absent", "empty"}
  /\ InitState

NextRetry ==
  \/ Tick
  \/ \E id \in SessionIds \cup {NoVal}, src \in {NoVal, "direct_message"} : StoreClick(id, src)
  \/ \E w \in W, e \in EventsOf(rev) : WebhookReceive(w, e)
  \/ \E w \in W : WebhookCommit(w)
  \/ SyncStart
  \/ SyncSetup
  \/ SyncSetupFails
  \/ SyncQuery
  \/ SyncQueryFails
  \/ SyncAppend
  \/ SyncAppendFails
  \/ SyncCommit
  \/ SyncCommitFails

SpecRetry == InitRetry /\ [][NextRetry]_vars

\* ======================================================= earlier revisions
\* "rev1" is the first server of src/server.js, "rev2" its second server,
\* "p002" the server of part_002, "app" the server of src/app/server.js;
\* "p000" runs the part_003 server with the export of part_000
InitLegacy ==
  rev \in {"rev1", "rev2", "p002", "p000", "app"} /\ budget = MaxFailures /\ InitCommon

\* ------------------------------------------- src/server.js, first revision
\* POST /store-click: the transaction sets the document when it does not
\* exist; doc(undefined) throws and the handler answers 500
Rev1StoreClick(id, src) ==
  /\ rev \in Rev1Server
  /\ IF id = NoVal \/ id \in DOMAIN store
       THEN UNCHANGED << store, lastWriter >>
       ELSE store' = Put(store, id, ClickDoc(src, now)) /\ lastWriter' = 0
  /\ UNCHANGED << conv, norm, cls, dest, auth, boot, row1, rev, budget, directMessages, now, sheet, webVars, schedVars, listenVars, nFail >>

\* the request arrives: the phone check, then the context parameter
Rev1Receive(w, e) ==
  /\ rev \in Rev1Server
  /\ wPc[w] = "idle"
  /\ \A v \in W : v < w => wPc[v] # "idle"
  /\ wEvent' = [wEvent EXCEPT ![w] = e]
  /\ wAfter' = [wAfter EXCEPT ![w] = Answered]
  /\ IF e.from = NoPhone
       THEN /\ wPc' = [wPc EXCEPT ![w] = "done"]
            /\ wStatus' = [wStatus EXCEPT ![w] = "400"]
            /\ UNCHANGED << wSession, wAttr, wUtm >>
       ELSE /\ UNCHANGED wStatus
            /\ wUtm' = [wUtm EXCEPT ![w] =
                 IF e.context.present /\ e.context.valid THEN e.context.source
                                                          ELSE "direct"]
            /\ IF e.context.present /\ e.context.valid /\ e.context.session_id # NoVal
                 THEN /\ wSession' = [wSession EXCEPT ![w] = e.context.session_id]
                      /\ wAttr' = [wAttr EXCEPT ![w] = "context"]
                      /\ wPc' = [wPc EXCEPT ![w] = "commit"]
                 ELSE /\ wPc' = [wPc EXCEPT ![w] = "phoneQuery"]
                      /\ UNCHANGED << wSession, wAttr >>
  /\ UNCHANGED << conv, norm, cls, dest, auth, boot, row1, rev, budget, directMessages, now, store, sheet, lastWriter, schedVars, listenVars, nFail >>

\* where('phoneNumber', '==', senderPhone).orderBy('timestamp', 'desc').limit(1)
Rev1PhoneCandidates(st, phone) == { id \in DOMAIN st : st[id].phoneNumber = phone }

Rev1PhoneQuery(w) ==
  /\ rev \in Rev1Server
  /\ wPc[w] = "phoneQuery"
  /\ IF Rev1PhoneCandidates(store, wEvent[w].from) # {}
       THEN /\ wSession' = [wSession EXCEPT ![w] =
                               Newest(Rev1PhoneCandidates(store, wEvent[w].from), store)]
            /\ wAttr' = [wAttr EXCEPT ![w] = "phone"]
            /\ wPc' = [wPc EXCEPT ![w] = "commit"]
       ELSE /\ wPc' = [wPc EXCEPT ![w] = "recentQuery"]
            /\ UNCHANGED << wSession, wAttr >>
  /\ UNCHANGED << conv, norm, cls, dest, auth, boot, row1, rev, budget, directMessages, now, store, sheet, wEvent, wUtm, wStatus, wAfter, lastWriter,
                  schedVars, listenVars, nFail >>

\* where('hasEngaged', '==', false).where('timestamp', '>=', thirtyMinutesAgo)
Rev1RecentCandidates(st, t) ==
  { id \in DOMAIN st : ~st[id].hasEngaged /\ st[id].timestamp >= t - ThirtyMinutes }

Rev1RecentQuery(w) ==
  /\ rev \in Rev1Server
  /\ wPc[w] = "recentQuery"
  /\ IF Rev1RecentCandidates(store, now) # {}
       THEN /\ wSession' = [wSession EXCEPT ![w] =
                               Newest(Rev1RecentCandidates(store, now), store)]
            /\ wUtm' = [wUtm EXCEPT ![w] =
                          store[Newest(Rev1RecentCandidates(store, now), store)].source]
            /\ wAttr' = [wAttr EXCEPT ![w] = "recent_click"]
       ELSE /\ wSession' = [wSession EXCEPT ![w] = GenId(w)]
            /\ wAttr' = [wAttr EXCEPT ![w] = "new"]
            /\ UNCHANGED wUtm
  /\ wPc' = [wPc EXCEPT ![w] = "commit"]
  /\ UNCHANGED << conv, norm, cls, dest, auth, boot, row1, rev, budget, directMessages, now, store, sheet, wEvent, wStatus, wAfter, lastWriter,
                  schedVars, listenVars, nFail >>

\* updateData: lastMessage only when the message has a text
Rev1UpdateDoc(d, e, t) ==
  [d EXCEPT !.hasEngaged = TRUE,
            !.phoneNumber = e.from,
            !.engagedAt = t,
            !.syncedToSheets = FALSE,
            !.lastMessage = IF e.text # NoVal THEN e.text ELSE @]

\* the transaction: update when the document exists, set otherwise
Rev1CommitTransaction(st, id, utmSource, e, t) ==
  IF id \in DOMAIN st
    THEN [st EXCEPT ![id] = Rev1UpdateDoc(st[id], e, t)]
    ELSE Put(st, id, Rev1UpdateDoc(ClickDoc(utmSource, t), e, t))

Rev1Commit(w) ==
  /\ rev \in Rev1Server
  /\ wPc[w] = "commit"
  /\ store' = Rev1CommitTransaction(store, wSession[w], wUtm[w], wEvent[w], now)
  /\ lastWriter' = w
  /\ wPc' = [wPc EXCEPT ![w] = "done"]
  /\ wStatus' = [wStatus EXCEPT ![w] = "processed"]
  /\ UNCHANGED << conv, norm, cls, dest, auth, boot, row1, rev, budget, directMessages, now, sheet, wEvent, wSession, wAttr, wUtm, wAfter,
                  schedVars, listenVars, nFail >>

\* a query or the transaction throws and the handler answers 500
Rev1Fails(w) ==
  /\ rev \in Rev1Server
  /\ wPc[w] \in {"phoneQuery", "recentQuery", "commit"}
  /\ nFail < budget
  /\ nFail' = nFail + 1
  /\ wPc' = [wPc EXCEPT ![w] = "done"]
  /\ wStatus' = [wStatus EXCEPT ![w] = "500"]
  /\ UNCHANGED << conv, norm, cls, dest, auth, boot, row1, rev, budget, directMessages, now, store, sheet, wEvent, wSession, wAttr, wUtm, wAfter,
                  lastWriter, schedVars, listenVars >>

\* ------------------------------------------ src/server.js, second revision
\* POST /store-click: an unconditional set; doc(undefined) throws and the
\* handler answers 500
Rev2StoreClick(id, src) ==
  /\ rev = "rev2"
  /\ IF id = NoVal
       THEN UNCHANGED << store, lastWriter >>
       ELSE store' = Put(store, id, ClickDoc(src, now)) /\ lastWriter' = 0
  /\ UNCHANGED << conv, norm, cls, dest, auth, boot, row1, rev, budget, directMessages, now, sheet, webVars, schedVars, listenVars, nFail >>

\* the request arrives: the context parameter, no phone check
Rev2Receive(w, e) ==
  /\ rev = "rev2"
  /\ wPc[w] = "idle"
  /\ \A v \in W : v < w => wPc[v] # "idle"
  /\ wEvent' = [wEvent EXCEPT ![w] = e]
  /\ wAfter' = [wAfter EXCEPT ![w] = Answered]
  /\ IF e.context.present /\ ~e.context.valid
       THEN /\ wPc' = [wPc EXCEPT ![w] = "done"]
            /\ wStatus' = [wStatus EXCEPT ![w] = "400"]
            /\ UNCHANGED << wSession, wAttr, wUtm >>
       ELSE IF e.context.present
         THEN /\ wPc' = [wPc EXCEPT ![w] = "update"]
              /\ wSession' = [wSession EXCEPT ![w] = e.context.session_id]
              /\ wUtm' = [wUtm EXCEPT ![w] = e.context.source]
              /\ wAttr' = [wAttr EXCEPT ![w] = "context"]
              /\ UNCHANGED wStatus
         ELSE /\ wPc' = [wPc EXCEPT ![w] = "set"]
              /\ wSession' = [wSession EXCEPT ![w] = GenId(w)]
              /\ wUtm' = [wUtm EXCEPT ![w] = "direct"]
              /\ wAttr' = [wAttr EXCEPT ![w] = "new"]
              /\ UNCHANGED wStatus
  /\ UNCHANGED << conv, norm, cls, dest, auth, boot, row1, rev, budget, directMessages, now, store, sheet, lastWriter, schedVars, listenVars, nFail >>

\* the document set for a message without context
Rev2DirectDoc(e, t) ==
  [ClickDoc("direct", t) EXCEPT !.hasEngaged = TRUE, !.phoneNumber = e.from,
                                !.lastMessage = MessageContent(e), !.engagedAt = t]

\* set() rejects an undefined phoneNumber, and the handler answers 500
Rev2Set(w) ==
  /\ rev = "rev2"
  /\ wPc[w] = "set"
  /\ IF wEvent[w].from = NoPhone
       THEN /\ wPc' = [wPc EXCEPT ![w] = "done"]
            /\ wStatus' = [wStatus EXCEPT ![w] = "500"]
            /\ UNCHANGED << store, lastWriter >>
       ELSE /\ wPc' = [wPc EXCEPT ![w] = "update"]
            /\ store' = Put(store, wSession[w], Rev2DirectDoc(wEvent[w], now))
            /\ lastWriter' = w
            /\ UNCHANGED wStatus
  /\ UNCHANGED << conv, norm, cls, dest, auth, boot, row1, rev, budget, directMessages, now, sheet, wEvent, wSession, wAttr, wUtm, wAfter,
                  schedVars, listenVars, nFail >>

\* updateData: { hasEngaged, phoneNumber, engagedAt, ...utmData }, lastMessage
\* only when the message has a text
Rev2UpdateDoc(d, e, utmSource, t) ==
  [d EXCEPT !.hasEngaged = IF e.context.present /\ e.context.hasEngaged # NoVal
                             THEN e.context.hasEngaged = "true" ELSE TRUE,
            !.phoneNumber = e.from,
            !.engagedAt = t,
            !.source = IF utmSource # NoVal THEN utmSource ELSE @,
            !.lastMessage = IF e.text # NoVal THEN e.text ELSE @]

\* docRef.update: doc(undefined), an undefined phoneNumber and a missing
\* document all throw, and the handler answers 500
Rev2Update(w) ==
  /\ rev = "rev2"
  /\ wPc[w] = "update"
  /\ wPc' = [wPc EXCEPT ![w] = "done"]
  /\ IF wSession[w] = NoVal \/ wEvent[w].from = NoPhone \/ wSession[w] \notin DOMAIN store
       THEN /\ wStatus' = [wStatus EXCEPT ![w] = "500"]
            /\ UNCHANGED << store, lastWriter >>
       ELSE /\ wStatus' = [wStatus EXCEPT ![w] = "processed"]
            /\ store' = [store EXCEPT ![wSession[w]] =
                            Rev2UpdateDoc(@, wEvent[w], wUtm[w], now)]
            /\ lastWriter' = w
  /\ UNCHANGED << conv, norm, cls, dest, auth, boot, row1, rev, budget, directMessages, now, sheet, wEvent, wSession, wAttr, wUtm, wAfter,
                  schedVars, listenVars, nFail >>

\* the set or the update throws and the handler answers 500
Rev2Fails(w) ==
  /\ rev = "rev2"
  /\ wPc[w] \in {"set", "update"}
  /\ nFail < budget
  /\ nFail' = nFail + 1
  /\ wPc' = [wPc EXCEPT ![w] = "done"]
  /\ wStatus' = [wStatus EXCEPT ![w] = "500"]
  /\ UNCHANGED << conv, norm, cls, dest, auth, boot, row1, rev, budget, directMessages, now, store, sheet, wEvent, wSession, wAttr, wUtm, wAfter,
                  lastWriter, schedVars, listenVars >>

\* ------------------------------------------------------- src/app/server.js
\* POST /store-click: the transaction sets the document when it does not exist
AppStoreClick(id, src) ==
  /\ rev = "app"
  /\ IF id = NoVal \/ id \in DOMAIN store
       THEN UNCHANGED << store, lastWriter >>
       ELSE store' = Put(store, id, ClickDoc(src, now)) /\ lastWriter' = 0
  /\ UNCHANGED << conv, norm, cls, dest, auth, boot, row1, rev, budget, directMessages, now, sheet, webVars, schedVars, listenVars,
                  nFail >>

\* whatsappInfo.from.replace(/^0+/, '91'), null without a from
AppPhone(raw) ==
  IF raw # NoPhone /\ Head(raw) = 0 THEN CountryCode \o StripZeros(raw) ELSE raw

\* the request arrives: 400 without a phone, else runTransaction is called
AppReceive(w, e) ==
  /\ rev = "app"
  /\ wPc[w] = "idle"
  /\ \A v \in W : v < w => wPc[v] # "idle"
  /\ wEvent' = [wEvent EXCEPT ![w] = e]
  /\ wAfter' = [wAfter EXCEPT ![w] = Answered]
  /\ IF AppPhone(e.from) = NoPhone
       THEN /\ wPc' = [wPc EXCEPT ![w] = "done"]
            /\ wStatus' = [wStatus EXCEPT ![w] = "400"]
       ELSE /\ wPc' = [wPc EXCEPT ![w] = "callback"]
            /\ UNCHANGED wStatus
  /\ UNCHANGED << conv, norm, cls, dest, auth, boot, row1, rev, budget, directMessages, now, store, sheet, wSession, wAttr, wUtm,
                  lastWriter, schedVars, listenVars, nFail >>

\* where('phoneNumber', '==', phone).where('contactId', '==', contactInfo.id)
AppContactCandidates(st, e) ==
  { id \in DOMAIN st : st[id].phoneNumber = AppPhone(e.from)
                        /\ st[id].contactId = e.contactId }

\* the transaction callback runs: it queues its write and answers from inside
\* the transaction. A query on an undefined contact id throws, and so does
\* res.json when the callback runs again after the answer was sent; the catch
\* answers 500 when no answer was sent yet.
AppCallback(w) ==
  /\ rev = "app"
  /\ wPc[w] = "callback"
  /\ IF wEvent[w].contactId = NoVal \/ wStatus[w] # NoVal
       THEN /\ wPc' = [wPc EXCEPT ![w] = "done"]
            /\ wStatus' = [wStatus EXCEPT ![w] = IF @ = NoVal THEN "500" ELSE @]
            /\ UNCHANGED << wSession, wAttr >>
       ELSE /\ wPc' = [wPc EXCEPT ![w] = "commit"]
            /\ IF AppContactCandidates(store, wEvent[w]) # {}
                 THEN /\ wSession' = [wSession EXCEPT ![w] =
                             CHOOSE id \in AppContactCandidates(store, wEvent[w]) :
                               \A o \in AppContactCandidates(store, wEvent[w]) :
                                 Pos(id) <= Pos(o)]
                      /\ wAttr' = [wAttr EXCEPT ![w] = "contact_matched"]
                      /\ wStatus' = [wStatus EXCEPT ![w] = "contact_matched"]
                 ELSE /\ wAttr' = [wAttr EXCEPT ![w] = "direct_message"]
                      /\ wStatus' = [wStatus EXCEPT ![w] = "direct_message"]
                      /\ UNCHANGED wSession
  /\ UNCHANGED << conv, norm, cls, dest, auth, boot, row1, rev, budget, directMessages, now, store, sheet, wEvent, wUtm, wAfter,
                  lastWriter, schedVars, listenVars, nFail >>

\* the transaction commits the queued write
AppCommit(w) ==
  /\ rev = "app"
  /\ wPc[w] = "commit"
  /\ wPc' = [wPc EXCEPT ![w] = "done"]
  /\ IF wAttr[w] = "contact_matched"
       THEN /\ store' = [store EXCEPT ![wSession[w]] =
                            [@ EXCEPT !.hasEngaged = TRUE, !.engagedAt = now,
                                      !.lastMessage = wEvent[w].text]]
            /\ lastWriter' = w
            /\ UNCHANGED directMessages
       ELSE /\ directMessages' = directMessages \cup {w}
            /\ UNCHANGED << store, lastWriter >>
  /\ UNCHANGED << conv, norm, cls, dest, auth, boot, row1, rev, budget, now, sheet, wEvent, wSession, wAttr, wUtm, wStatus, wAfter,
                  schedVars, listenVars, nFail >>

\* the commit fails on contention and the store runs the callback again
AppContention(w) ==
  /\ rev = "app"
  /\ wPc[w] = "commit"
  /\ nFail < budget
  /\ nFail' = nFail + 1
  /\ wPc' = [wPc EXCEPT ![w] = "callback"]
  /\ UNCHANGED << conv, norm, cls, dest, auth, boot, row1, rev, budget, directMessages, now, store, sheet, wEvent, wSession, wAttr,
                  wUtm, wStatus, wAfter, lastWriter, schedVars, listenVars >>

\* the commit throws: the catch cannot answer, the answer was sent already
AppCommitFails(w) ==
  /\ rev = "app"
  /\ wPc[w] = "commit"
  /\ nFail < budget
  /\ nFail' = nFail + 1
  /\ wPc' = [wPc EXCEPT ![w] = "done"]
  /\ UNCHANGED << conv, norm, cls, dest, auth, boot, row1, rev, budget, directMessages, now, store, sheet, wEvent, wSession, wAttr,
                  wUtm, wStatus, wAfter, lastWriter, schedVars, listenVars >>

\* ------------------------------------------------------- part_002's server
\* POST /store-click: an unconditional set
P002StoreClick(id, src) ==
  /\ rev = "p002"
  /\ IF id = NoVal
       THEN UNCHANGED << store, lastWriter >>
       ELSE store' = Put(store, id, ClickDoc(src, now)) /\ lastWriter' = 0
  /\ UNCHANGED << conv, norm, cls, dest, auth, boot, row1, rev, budget, directMessages, now, sheet, webVars, schedVars, listenVars, nFail >>

\* the request arrives: the event type, then the context parameter
P002Receive(w, e) ==
  /\ rev = "p002"
  /\ wPc[w] = "idle"
  /\ \A v \in W : v < w => wPc[v] # "idle"
  /\ wEvent' = [wEvent EXCEPT ![w] = e]
  /\ wAfter' = [wAfter EXCEPT ![w] = Answered]
  /\ IF e.kind # "Message.received"
       THEN /\ wPc' = [wPc EXCEPT ![w] = "done"]
            /\ wStatus' = [wStatus EXCEPT ![w] = "ignored"]
            /\ UNCHANGED << wSession, wAttr >>
       ELSE IF (e.context.present /\ ~e.context.valid)
               \/ ~e.context.present \/ e.context.session_id = NoVal
         THEN /\ wPc' = [wPc EXCEPT ![w] = "done"]
              /\ wStatus' = [wStatus EXCEPT ![w] = "400"]
              /\ UNCHANGED << wSession, wAttr >>
         ELSE /\ wPc' = [wPc EXCEPT ![w] = "get"]
              /\ wSession' = [wSession EXCEPT ![w] = e.context.session_id]
              /\ wAttr' = [wAttr EXCEPT ![w] = "context"]
              /\ UNCHANGED wStatus
  /\ UNCHANGED << conv, norm, cls, dest, auth, boot, row1, rev, budget, directMessages, now, store, sheet, wUtm, lastWriter, schedVars, listenVars,
                  nFail >>

\* docRef.get(): 404 when the session does not exist
P002Get(w) ==
  /\ rev = "p002"
  /\ wPc[w] = "get"
  /\ IF wSession[w] \in DOMAIN store
       THEN wPc' = [wPc EXCEPT ![w] = "update"] /\ UNCHANGED wStatus
       ELSE wPc' = [wPc EXCEPT ![w] = "done"] /\ wStatus' = [wStatus EXCEPT ![w] = "404"]
  /\ UNCHANGED << conv, norm, cls, dest, auth, boot, row1, rev, budget, directMessages, now, store, sheet, wEvent, wSession, wAttr, wUtm, wAfter,
                  lastWriter, schedVars, listenVars, nFail >>

\* docRef.update({ hasEngaged, phoneNumber, lastMessage, engagedAt })
P002UpdateDoc(d, e, t) ==
  [d EXCEPT !.hasEngaged = TRUE, !.phoneNumber = e.from, !.lastMessage = e.text,
            !.engagedAt = t]

\* the update rejects an undefined field value, and the handler answers 500
P002Update(w) ==
  /\ rev = "p002"
  /\ wPc[w] = "update"
  /\ wPc' = [wPc EXCEPT ![w] = "done"]
  /\ IF wEvent[w].from = NoPhone \/ wEvent[w].text = NoVal
       THEN /\ wStatus' = [wStatus EXCEPT ![w] = "500"]
            /\ UNCHANGED << store, lastWriter >>
       ELSE /\ wStatus' = [wStatus EXCEPT ![w] = "updated"]
            /\ store' = [store EXCEPT ![wSession[w]] = P002UpdateDoc(@, wEvent[w], now)]
            /\ lastWriter' = w
  /\ UNCHANGED << conv, norm, cls, dest, auth, boot, row1, rev, budget, directMessages, now, sheet, wEvent, wSession, wAttr, wUtm, wAfter,
                  schedVars, listenVars, nFail >>

\* the get or the update throws and the handler answers 500
P002Fails(w) ==
  /\ rev = "p002"
  /\ wPc[w] \in {"get", "update"}
  /\ nFail < budget
  /\ nFail' = nFail + 1
  /\ wPc' = [wPc EXCEPT ![w] = "done"]
  /\ wStatus' = [wStatus EXCEPT ![w] = "500"]
  /\ UNCHANGED << conv, norm, cls, dest, auth, boot, row1, rev, budget, directMessages, now, store, sheet, wEvent, wSession, wAttr, wUtm, wAfter,
                  lastWriter, schedVars, listenVars >>

\* --------------------------------------------------- part_000: syncToSheets
P000SyncStart ==
  /\ rev = "p000"
  /\ sPc = "idle"
  /\ sPc' = "setup"
  /\ sAttempt' = 0
  /\ sSnap' = {}
  /\ sResult' = NoResult
  /\ sErr' = NoVal
  /\ sWait' = 0
  /\ UNCHANGED << conv, norm, cls, dest, auth, boot, row1, rev, budget, directMessages, now, store, sheet, webVars, lastWriter, listenVars, pending,
                  updFailed, nFail >>

\* initializeSheetsClient, the sheet and its headers
P000SyncSetup ==
  /\ rev = "p000"
  /\ sPc = "setup"
  /\ sPc' = "query"
  /\ row1' = EnsureSheetExists(row1)
  /\ UNCHANGED << conv, norm, cls, dest, auth, boot, rev, budget, directMessages, now, store, sheet, webVars, lastWriter, sAttempt, sSnap,
                  sResult, sErr, sWait, pending, updFailed, listenVars, nFail >>

\* the query; the updates are issued as soon as it returns
P000SyncQuery ==
  /\ rev = "p000"
  /\ sPc = "query"
  /\ IF Unsynced(store) = {}
       THEN sPc' = "idle" /\ sResult' = CountResult(0) /\ sAttempt' = 0
            /\ sErr' = NoVal /\ sWait' = 0
            /\ UNCHANGED << sSnap, pending >>
       ELSE sPc' = "append" /\ sSnap' = Unsynced(store)
            /\ pending' = pending \cup Unsynced(store)
            /\ UNCHANGED << sResult, sAttempt, sErr, sWait >>
  /\ UNCHANGED << conv, norm, cls, dest, auth, boot, row1, rev, budget, directMessages, now, store, sheet, webVars, lastWriter, listenVars,
                  updFailed, nFail >>

\* one doc.ref.update reaches the store
P000UpdateLands(id) ==
  /\ rev = "p000"
  /\ id \in pending
  /\ pending' = pending \ {id}
  /\ store' = [store EXCEPT ![id].syncedToSheets = TRUE, ![id].lastSynced = now]
  /\ lastWriter' = 0
  /\ UNCHANGED << conv, norm, cls, dest, auth, boot, row1, rev, budget, directMessages, now, sheet, webVars, sPc, sAttempt, sSnap, sResult, sErr, sWait,
                  updFailed, listenVars, nFail >>

\* one doc.ref.update is rejected
P000UpdateFails(id) ==
  /\ rev = "p000"
  /\ id \in pending
  /\ nFail < budget
  /\ nFail' = nFail + 1
  /\ pending' = pending \ {id}
  /\ updFailed' = TRUE
  /\ UNCHANGED << conv, norm, cls, dest, auth, boot, row1, rev, budget, directMessages, now, store, sheet, webVars, lastWriter, sPc, sAttempt, sSnap,
                  sResult, sErr, sWait, listenVars >>

\* spreadsheets.values.append
P000SyncAppend ==
  /\ rev = "p000"
  /\ sPc = "append"
  /\ Len(sheet) + Len(ConvertToSheetRows(sSnap, store)) <= MaxRows
  /\ sheet' = sheet \o ConvertToSheetRows(sSnap, store)
  /\ row1' = AppendRows(row1)
  /\ sPc' = "await"
  /\ UNCHANGED << conv, norm, cls, dest, auth, boot, rev, budget, directMessages, now, store, webVars, lastWriter, sAttempt, sSnap,
                  sResult, sErr, sWait, pending, updFailed, listenVars, nFail >>

\* the setup, the query or the append throws; updates already issued stay in
\* flight
P000SyncFails ==
  /\ rev = "p000"
  /\ sPc \in {"setup", "query", "append"}
  /\ SyncCatch
  /\ UNCHANGED << conv, norm, cls, dest, auth, boot, row1, rev, budget, directMessages, now, store, sheet, webVars, lastWriter, listenVars >>

\* await Promise.all(updatePromises)
P000SyncAwait ==
  /\ rev = "p000"
  /\ sPc = "await"
  /\ sSnap \cap pending = {}
  /\ updFailed' = FALSE
  /\ IF updFailed
       THEN Catch
       ELSE sPc' = "idle" /\ sResult' = CountResult(Len(ConvertToSheetRows(sSnap, store)))
            /\ sSnap' = {} /\ sAttempt' = 0 /\ sErr' = NoVal /\ sWait' = 0
  /\ UNCHANGED << conv, norm, cls, dest, auth, boot, row1, rev, budget, directMessages, now, store, sheet, webVars, lastWriter, pending, listenVars,
                  nFail >>

\* ---------------------------------------------- part_000: setupRealtimeSync
\* snapshot.docChanges(): the documents added to the query result or modified
\* in it since the previous snapshot
DocChanges(old, new) ==
  { id \in DOMAIN new : id \notin DOMAIN old \/ old[id] # new[id] }

P000SnapshotDelivered ==
  /\ rev = "p000"
  /\ View(store) # view
  /\ view' = View(store)
  /\ IF DocChanges(view, View(store)) = {}
       THEN UNCHANGED << lPc, lSnap >>
       ELSE /\ \E cb \in Callbacks : lPc[cb] = "idle"
            /\ lPc' = [lPc EXCEPT ![FreeCallback] = "mark"]
            /\ lSnap' = [lSnap EXCEPT ![FreeCallback] = DocChanges(view, View(store))]
  /\ UNCHANGED << conv, norm, cls, dest, auth, boot, row1, rev, budget, directMessages, now, store, sheet, webVars, lastWriter, schedVars, nFail >>

\* initializeSheetsClient, then every document is marked synced
P000ListenMark(cb) ==
  /\ rev = "p000"
  /\ lPc[cb] = "mark"
  /\ store' = [id \in DOMAIN store |->
                 IF id \in lSnap[cb]
                   THEN [store[id] EXCEPT !.syncedToSheets = TRUE, !.lastSynced = now]
                   ELSE store[id]]
  /\ lastWriter' = 0
  /\ lPc' = [lPc EXCEPT ![cb] = "append"]
  /\ UNCHANGED << conv, norm, cls, dest, auth, boot, row1, rev, budget, directMessages, now, sheet, webVars, schedVars, view, lSnap, nFail >>

\* spreadsheets.values.append
P000ListenAppend(cb) ==
  /\ rev = "p000"
  /\ lPc[cb] = "append"
  /\ row1 # "absent"
  /\ Len(sheet) + Len(ConvertToSheetRows(lSnap[cb], store)) <= MaxRows
  /\ sheet' = sheet \o ConvertToSheetRows(lSnap[cb], store)
  /\ row1' = AppendRows(row1)
  /\ lPc' = [lPc EXCEPT ![cb] = "idle"]
  /\ lSnap' = [lSnap EXCEPT ![cb] = {}]
  /\ UNCHANGED << conv, norm, cls, dest, auth, boot, rev, budget, directMessages, now, store, webVars, lastWriter, schedVars, view, nFail >>

\* an await of the callback throws: the catch block logs and the callback ends
P000ListenFails(cb) ==
  /\ rev = "p000"
  /\ lPc[cb] \in {"mark", "append"}
  /\ nFail < budget
  /\ nFail' = nFail + 1
  /\ lPc' = [lPc EXCEPT ![cb] = "idle"]
  /\ lSnap' = [lSnap EXCEPT ![cb] = {}]
  /\ UNCHANGED << conv, norm, cls, dest, auth, boot, row1, rev, budget, directMessages, now, store, sheet, webVars, lastWriter, schedVars, view >>

\* --------------------------------------------------------------- NextLegacy
NextLegacy ==
  \/ Tick
  \/ \E id \in SessionIds \cup {NoVal}, src \in {NoVal, "direct_message"} : StoreClick(id, src)
  \/ \E w \in W, e \in EventsOf(rev) : WebhookReceive(w, e)
  \/ \E w \in W : WebhookCommit(w)
  \/ \E w \in W : WebhookCommitFails(w)
  \/ \E id \in {"s1", NoVal} : Rev1StoreClick(id, "facebook")
  \/ \E w \in W, e \in EventsOf(rev) : Rev1Receive(w, e)
  \/ \E w \in W : Rev1PhoneQuery(w)
  \/ \E w \in W : Rev1RecentQuery(w)
  \/ \E w \in W : Rev1Commit(w)
  \/ \E w \in W : Rev1Fails(w)
  \/ \E id \in {"s1", NoVal} : Rev2StoreClick(id, "facebook")
  \/ \E w \in W, e \in EventsOf(rev) : Rev2Receive(w, e)
  \/ \E w \in W : Rev2Set(w)
  \/ \E w \in W : Rev2Update(w)
  \/ \E w \in W : Rev2Fails(w)
  \/ \E id \in {"s1", NoVal} : AppStoreClick(id, "facebook")
  \/ \E w \in W, e \in EventsOf(rev) : AppReceive(w, e)
  \/ \E w \in W : AppCallback(w)
  \/ \E w \in W : AppCommit(w)
  \/ \E w \in W : AppContention(w)
  \/ \E w \in W : AppCommitFails(w)
  \/ \E id \in {"s1", NoVal} : P002StoreClick(id, "facebook")
  \/ \E w \in W, e \in EventsOf(rev) : P002Receive(w, e)
  \/ \E w \in W : P002Get(w)
  \/ \E w \in W : P002Update(w)
  \/ \E w \in W : P002Fails(w)
  \/ P000SyncStart
  \/ P000SyncSetup
  \/ P000SyncQuery
  \/ \E id \in SessionIds : P000UpdateLands(id)
  \/ \E id \in SessionIds : P000UpdateFails(id)
  \/ P000SyncAppend
  \/ P000SyncFails
  \/ P000SyncAwait
  \/ P000SnapshotDelivered
  \/ \E cb \in Callbacks : P000ListenMark(cb)
  \/ \E cb \in Callbacks : P000ListenAppend(cb)
  \/ \E cb \in Callbacks : P000ListenFails(cb)

SpecLegacy == InitLegacy /\ [][NextLegacy]_vars

\* ------------------- syncToSheets of src/app/google-sheets-sync.js ("appSync")
\* ------------------------------------------------- and of part_006 ("p006")
\* In "appSync" the sheet is UTM_Tracking and its first row is the header.
HeaderRow == "header"

InitExport == rev \in {"appSync", "p006"} /\ budget = MaxFailures /\ InitCommon

\* the query: part_006 has no source filter
ExportSnapshot(st) ==
  IF rev = "p006"
    THEN { id \in DOMAIN st : st[id].hasEngaged /\ ~st[id].syncedToSheets }
    ELSE Unsynced(st)

\* convertToSheetRows(snapshot.docs): one row for every document
ExportRows(snap) == SelectSeq(IdOrder, LAMBDA id : id \in snap)

\* batch.update(doc.ref, ...) for every document of the snapshot; part_006
\* sets syncedToSheets only
ExportMark(st, snap, t) ==
  [id \in DOMAIN st |->
     IF id \in snap
       THEN [st[id] EXCEPT !.syncedToSheets = TRUE,
                           !.lastSynced = IF rev = "p006" THEN @ ELSE t]
       ELSE st[id]]

\* spreadsheets.values.update on the range A<first>:N<first + n - 1>
ValuesUpdate(sh, first, rows) ==
  [i \in 1..(IF Len(sh) > first + Len(rows) - 1 THEN Len(sh)
                                                 ELSE first + Len(rows) - 1) |->
     IF i >= first /\ i < first + Len(rows) THEN rows[i - first + 1] ELSE sh[i]]

\* the write of the rows: part_006 appends; src/app/google-sheets-sync.js
\* updates from row sheetsData.values.length + 1, and sheetsData holds the one
\* row of A1:N1
ExportWrite(sh, rows) ==
  IF rev = "p006" THEN sh \o rows ELSE ValuesUpdate(sh, 1 + 1, rows)

\* scheduledSync calls syncToSheets
ExportStart ==
  /\ rev \in {"appSync", "p006"}
  /\ sPc = "idle"
  /\ sPc' = "setup"
  /\ sAttempt' = 0
  /\ sSnap' = {}
  /\ sResult' = NoResult
  /\ sErr' = NoVal
  /\ sWait' = 0
  /\ UNCHANGED << conv, norm, cls, dest, auth, boot, row1, rev, budget, directMessages, now, store, sheet, webVars, lastWriter,
                  listenVars, pending, updFailed, nFail >>

\* initializeSheetsClient and spreadsheets.get; src/app/google-sheets-sync.js
\* then reads A1:N1 and writes the header when the sheet is empty, and in that
\* attempt sheetsData.values stays undefined
ExportSetup ==
  /\ rev \in {"appSync", "p006"}
  /\ sPc = "setup"
  /\ IF rev = "appSync" /\ sheet = << >>
       THEN sheet' = << HeaderRow >> /\ sPc' = "queryBlind"
       ELSE UNCHANGED sheet /\ sPc' = "query"
  /\ row1' = IF rev = "appSync" /\ row1 = "empty" THEN "header" ELSE row1
  /\ UNCHANGED << conv, norm, cls, dest, auth, boot, rev, budget, directMessages, now, store, webVars, lastWriter, sAttempt,
                  sSnap, sResult, sErr, sWait, pending, updFailed, listenVars, nFail >>

\* the query, the rows and the batch; sheetsData.values.length throws a
\* TypeError in the attempt that wrote the header
ExportQuery ==
  /\ rev \in {"appSync", "p006"}
  /\ sPc \in {"query", "queryBlind"}
  /\ IF ExportSnapshot(store) = {}
       THEN sPc' = "idle" /\ sResult' = CountResult(0) /\ sAttempt' = 0
            /\ sErr' = NoVal /\ sWait' = 0
            /\ UNCHANGED sSnap
       ELSE IF sPc = "queryBlind"
         THEN Catch
         ELSE sPc' = "write" /\ sSnap' = ExportSnapshot(store)
              /\ UNCHANGED << sResult, sAttempt, sErr, sWait >>
  /\ UNCHANGED << conv, norm, cls, dest, auth, boot, row1, rev, budget, directMessages, now, store, sheet, webVars, lastWriter,
                  listenVars, pending, updFailed, nFail >>

\* spreadsheets.values.update (src/app) or spreadsheets.values.append (part_006)
ExportWriteRows ==
  /\ rev \in {"appSync", "p006"}
  /\ sPc = "write"
  /\ Len(ExportWrite(sheet, ExportRows(sSnap))) <= MaxRows + 1
  /\ sheet' = ExportWrite(sheet, ExportRows(sSnap))
  /\ row1' = IF rev = "p006" THEN AppendRows(row1) ELSE row1
  /\ sPc' = "commit"
  /\ UNCHANGED << conv, norm, cls, dest, auth, boot, rev, budget, directMessages, now, store, webVars, lastWriter, sAttempt,
                  sSnap, sResult, sErr, sWait, pending, updFailed, listenVars, nFail >>

\* batch.commit
ExportCommit ==
  /\ rev \in {"appSync", "p006"}
  /\ sPc = "commit"
  /\ store' = ExportMark(store, sSnap, now)
  /\ lastWriter' = 0
  /\ sPc' = "idle"
  /\ sResult' = CountResult(Len(ExportRows(sSnap)))
  /\ sSnap' = {}
  /\ sAttempt' = 0
  /\ sErr' = NoVal
  /\ sWait' = 0
  /\ UNCHANGED << conv, norm, cls, dest, auth, boot, row1, rev, budget, directMessages, now, sheet, webVars, listenVars, pending,
                  updFailed, nFail >>

\* an awaited call throws
ExportFails ==
  /\ rev \in {"appSync", "p006"}
  /\ sPc \in {"setup", "query", "queryBlind", "write", "commit"}
  /\ SyncCatch
  /\ UNCHANGED << conv, norm, cls, dest, auth, boot, row1, rev, budget, directMessages, now, store, sheet, webVars, lastWriter,
                  listenVars >>

NextExport ==
  \/ Tick
  \/ \E id \in SessionIds, src \in {"facebook", "direct_message"} : Rev1StoreClick(id, src)
  \/ \E w \in W, e \in ExportEvents : Rev1Receive(w, e)
  \/ \E w \in W : Rev1PhoneQuery(w)
  \/ \E w \in W : Rev1RecentQuery(w)
  \/ \E w \in W : Rev1Commit(w)
  \/ \E w \in W : Rev1Fails(w)
  \/ ExportStart
  \/ ExportSetup
  \/ ExportQuery
  \/ ExportWriteRows
  \/ ExportCommit
  \/ ExportFails

SpecExport == InitExport /\ [][NextExport]_vars


\* ------------------------------------- convertToSheetRows on one document
InitRows ==
  /\ rev \in {"current", "appSync", "p006", "p001"}
  /\ budget = 0
  /\ InitState
  /\ conv \in [ doc : SheetDocs, rows : {<< >>}, done : {FALSE} ]
  /\ norm = NoNorm
  /\ cls = NoCls
  /\ boot = Booted /\ dest = NoDest /\ auth = Passed
  /\ row1 = "empty"

\* rows = convertToSheetRows(snapshot.docs) for a snapshot of this document
Convert ==
  /\ ~conv.done
  /\ conv' = [conv EXCEPT !.rows = ConvertDoc(conv.doc), !.done = TRUE]
  /\ UNCHANGED << norm, cls, dest, auth, boot, row1, rev, budget, directMessages, now, store, sheet, webVars, lastWriter,
                  schedVars, listenVars, nFail >>

NextRows == Convert

SpecRows == InitRows /\ [][NextRows]_vars

\* ------------------------------------------- the phone normalization alone
\* the sender phones: every digit string of up to MaxDigits digits, and the
\* ten-digit number of the concrete scenario with and without a leading zero
Digits == {0, 1, 7, 9}

ScenarioPhone == << 9, 1, 9, 8, 7, 6, 5, 4, 3, 2 >>

SenderPhones ==
  UNION { [1..n -> Digits] : n \in 0..MaxDigits } \cup {ScenarioPhone, << 0 >> \o ScenarioPhone}

\* the normalization of the deployment: part_003's, or src/app/server.js's
NormalizeOf(raw) == IF rev = "app" THEN AppPhone(raw) ELSE NormalizePhone(raw)

InitPhone ==
  /\ rev \in {"current", "app"}
  /\ budget = 0
  /\ InitState
  /\ conv = NoConv
  /\ cls = NoCls
  /\ boot = Booted /\ dest = NoDest /\ auth = Passed
  /\ row1 = "empty"
  /\ norm \in [ raw : SenderPhones, out : {NoPhone}, again : {NoPhone}, done : {FALSE} ]

\* the handler normalizes the sender phone; the result is normalized again
Normalize ==
  /\ ~norm.done
  /\ norm' = [norm EXCEPT !.out = NormalizeOf(norm.raw),
                          !.again = NormalizeOf(NormalizeOf(norm.raw)),
                          !.done = TRUE]
  /\ UNCHANGED << conv, cls, dest, auth, boot, row1, rev, budget, directMessages, now, store, sheet, webVars,
                  lastWriter, schedVars, listenVars, nFail >>

NextPhone == Normalize

SpecPhone == InitPhone /\ [][NextPhone]_vars

\* --------------------------- syncToSheets' catch and scheduledSync's catch
\* of src/app/server.js ("app") and of part_006 ("p006")
InitClassify ==
  /\ rev \in {"app", "p006"}
  /\ budget = 0
  /\ InitState
  /\ conv = NoConv
  /\ norm = NoNorm
  /\ row1 = "empty"
  /\ cls = NoCls
  /\ boot = Booted /\ dest = NoDest /\ auth = Passed

\* throw new Error(`Final sync failure: ${err.message}`), in part_006
\* `Sheets sync failed: ${err.message}`: the new error has no code
FinalError(err) ==
  [code |-> NoVal,
   message |-> (IF rev = "p006" THEN << "Sheets", "sync", "failed:" >>
                                ELSE << "Final", "sync", "failure:" >>) \o err.message]

\* err.message.includes('quota') || err.code === 429
Retryable(err) == Includes(err.message, "quota") \/ err.code = "429"

\* an attempt throws e: the catch block counts it and, at MAX_RETRIES,
\* throws the final error
AttemptThrows(e) ==
  /\ ~cls.done
  /\ cls.attempt < MAX_RETRIES
  /\ cls' = [cls EXCEPT !.attempt = @ + 1,
                        !.err = e,
                        !.thrown = IF cls.attempt + 1 >= MAX_RETRIES
                                     THEN FinalError(e) ELSE NoError]
  /\ UNCHANGED << conv, norm, dest, auth, boot, row1, rev, budget, directMessages, now, store, sheet, webVars,
                  lastWriter, schedVars, listenVars, nFail >>

\* an attempt returns its count: scheduledSync's try block
AttemptReturns ==
  /\ ~cls.done
  /\ cls.attempt < MAX_RETRIES
  /\ cls' = [cls EXCEPT !.done = TRUE, !.success = "true"]
  /\ UNCHANGED << conv, norm, dest, auth, boot, row1, rev, budget, directMessages, now, store, sheet, webVars,
                  lastWriter, schedVars, listenVars, nFail >>

\* scheduledSync's catch block
ScheduledSyncCatch ==
  /\ ~cls.done
  /\ cls.attempt >= MAX_RETRIES
  /\ cls' = [cls EXCEPT !.done = TRUE,
                        !.success = "false",
                        !.error = cls.thrown.message,
                        !.retryable = IF Retryable(cls.thrown) THEN "true" ELSE "false"]
  /\ UNCHANGED << conv, norm, dest, auth, boot, row1, rev, budget, directMessages, now, store, sheet, webVars,
                  lastWriter, schedVars, listenVars, nFail >>

NextClassify ==
  \/ \E e \in Errors : AttemptThrows(e)
  \/ AttemptReturns
  \/ ScheduledSyncCatch

SpecClassify == InitClassify /\ [][NextClassify]_vars

\* ----------------------------------------- the deferred initialization
\* of part_003 ("current") and of part_004 ("p004"); the server listens from
\* the start with /health alone
maxRetries == 3

InitBoot ==
  /\ rev \in {"current", "p004"}
  /\ budget = 0
  /\ InitState
  /\ conv = NoConv
  /\ norm = NoNorm
  /\ cls = NoCls
  /\ dest = NoDest /\ auth = Passed
  /\ row1 = "empty"
  /\ boot = [pc |-> "load", attempt |-> 1, connected |-> FALSE, waited |-> 0,
             endpoints |-> {}, listening |-> TRUE, probes |-> NoProbes]

BootFrame ==
  UNCHANGED << conv, norm, cls, dest, auth, row1, rev, budget, directMessages, now, store, sheet, webVars,
               lastWriter, schedVars, listenVars, nFail >>

\* the catch block of the initialization: part_003 closes the server and
\* exits, part_004 logs
InitializationError(b) ==
  IF rev = "p004" THEN [b EXCEPT !.pc = "failed"]
                  ELSE [b EXCEPT !.pc = "closed", !.listening = FALSE]

\* the credentials are read and the databases initialized; part_004 issues
\* its listCollections and goes on
BootLoad ==
  /\ boot.pc = "load"
  /\ boot' = [boot EXCEPT !.pc = IF rev = "p004" THEN "register" ELSE "check"]
  /\ BootFrame

BootLoadFails ==
  /\ boot.pc = "load"
  /\ boot' = InitializationError(boot)
  /\ BootFrame

\* both listCollections calls return
CheckSucceeds ==
  /\ rev = "current"
  /\ boot.pc = "check"
  /\ boot' = [boot EXCEPT !.connected = TRUE, !.pc = "register"]
  /\ BootFrame

\* a listCollections call throws: the catch block awaits 2000 ms; after the
\* last attempt the loop ends and 'Failed to connect to Firestore' is thrown
CheckFails ==
  /\ rev = "current"
  /\ boot.pc = "check"
  /\ boot' = IF boot.attempt < maxRetries
               THEN [boot EXCEPT !.attempt = @ + 1, !.waited = @ + 2000]
               ELSE InitializationError([boot EXCEPT !.waited = @ + 2000])
  /\ BootFrame

\* the next app.post of the initialization; part_004 has no /scheduled-sync
Registered(b) ==
  IF rev = "p004" THEN EndpointSet \ {"/scheduled-sync"} ELSE EndpointSet

NextEndpoint(b) ==
  Endpoints[CHOOSE i \in 1..Len(Endpoints) :
              /\ Endpoints[i] \in Registered(b) \ b.endpoints
              /\ \A j \in 1..(i - 1) : Endpoints[j] \notin Registered(b) \ b.endpoints]

Register ==
  /\ boot.pc = "register"
  /\ boot.endpoints # Registered(boot)
  /\ boot' = [boot EXCEPT !.endpoints = @ \cup {NextEndpoint(boot)}]
  /\ BootFrame

\* setupRealtimeSync (part_003), the first scheduledSync (part_004)
BootCompletes ==
  /\ boot.pc = "register"
  /\ boot.endpoints = Registered(boot)
  /\ boot' = [boot EXCEPT !.pc = "ready"]
  /\ BootFrame

BootFails ==
  /\ boot.pc = "register"
  /\ boot' = InitializationError(boot)
  /\ BootFrame

\* a request to an endpoint: refused by a closed server, 404 from express
\* when no route is registered, handled otherwise
Probe(ep) ==
  /\ boot' = [boot EXCEPT !.probes[ep] =
                 IF ~boot.listening THEN "refused"
                 ELSE IF ep \in boot.endpoints THEN "handled" ELSE "404"]
  /\ boot' # boot
  /\ BootFrame

NextBoot ==
  \/ BootLoad
  \/ BootLoadFails
  \/ CheckSucceeds
  \/ CheckFails
  \/ Register
  \/ BootCompletes
  \/ BootFails
  \/ \E ep \in EndpointSet : Probe(ep)

SpecBoot == InitBoot /\ [][NextBoot]_vars

\* ------------------------ syncToSheets of src/google-sheets-sync.js over
\* its two databases; env holds the databases whose spreadsheet id is set
InitDest ==
  /\ rev = "current"
  /\ budget = 0
  /\ InitState
  /\ conv = NoConv
  /\ norm = NoNorm
  /\ cls = NoCls
  /\ row1 = "empty"
  /\ boot = Booted
  /\ auth = Passed
  /\ dest \in { [NoDest EXCEPT !.env = e] : e \in SUBSET DatabaseSet }

DestFrame ==
  UNCHANGED << conv, norm, cls, auth, boot, row1, rev, budget, directMessages, now, store, sheet, webVars,
               lastWriter, schedVars, listenVars, nFail >>

\* the awaits of an attempt of syncDatabaseToSheet
SyncCalls == {"setup", "query", "append", "commit"}

\* if (process.env.SHEETS_SPREADSHEET_ID...) is false
DestSkip ==
  /\ ~dest.returned
  /\ dest.db <= Len(Databases)
  /\ Databases[dest.db] \notin dest.env
  /\ dest' = [dest EXCEPT !.db = @ + 1]
  /\ DestFrame

\* an attempt of syncDatabaseToSheet returns { count: n }
DestSucceeds(n) ==
  /\ ~dest.returned
  /\ dest.db <= Len(Databases)
  /\ Databases[dest.db] \in dest.env
  /\ dest' = [dest EXCEPT !.db = @ + 1, !.attempt = 0, !.err = NoVal,
                          !.attempted = @ \cup {Databases[dest.db]},
                          !.results[Databases[dest.db]] = [success |-> NoVal, count |-> n]]
  /\ DestFrame

\* an attempt throws in call c: syncDatabaseToSheet's catch retries, and at
\* MAX_RETRIES rethrows into syncToSheets' catch, which returns results
DestThrows(c) ==
  /\ ~dest.returned
  /\ dest.db <= Len(Databases)
  /\ Databases[dest.db] \in dest.env
  /\ dest' = [dest EXCEPT !.attempt = @ + 1, !.err = c,
                          !.attempted = @ \cup {Databases[dest.db]},
                          !.returned = dest.attempt + 1 >= MAX_RETRIES]
  /\ DestFrame

\* return results
DestReturns ==
  /\ ~dest.returned
  /\ dest.db > Len(Databases)
  /\ dest' = [dest EXCEPT !.returned = TRUE]
  /\ DestFrame

NextDest ==
  \/ DestSkip
  \/ \E n \in 0..MaxRows : DestSucceeds(n)
  \/ \E c \in SyncCalls : DestThrows(c)
  \/ DestReturns

SpecDest == InitDest /\ [][NextDest]_vars

\* ------------------------------- verifyGallabox in front of the handler
\* of part_003; no request has arrived and the secret is not cached
InitAuth ==
  /\ rev = "current"
  /\ budget = 0
  /\ InitState
  /\ conv = NoConv
  /\ norm = NoNorm
  /\ cls = NoCls
  /\ row1 = "empty"
  /\ boot = Booted
  /\ dest = NoDest
  /\ auth = [cached |-> FALSE, token |-> [w \in W |-> NoVal], pass |-> [w \in W |-> NoVal]]

\* the middleware accepts every request
VerifyGallaboxAcceptsAll(token, fetched) == IF fetched THEN "next" ELSE "500"

\* the middleware: 500 when getSecret throws, 401 when token !== gallaboxToken,
\* next() otherwise
VerifyGallabox(token, fetched) ==
  IF ~fetched THEN "500"
  ELSE IF token # GallaboxToken THEN "401"
  ELSE "next"

\* request w arrives with header h; getSecret answers from the cache, or
\* fetches the secret (fetched) or throws
Verify(w, h, fetched) ==
  /\ rev = "current"
  /\ wPc[w] = "idle"
  /\ auth.pass[w] = NoVal
  /\ \A v \in W : v < w => auth.pass[v] # NoVal
  /\ auth.cached => fetched
  /\ auth' = [auth EXCEPT !.cached = @ \/ fetched,
                          !.token[w] = h,
                          !.pass[w] = VerifyGallabox(h, fetched)]
  /\ IF VerifyGallabox(h, fetched) = "next"
       THEN UNCHANGED << wPc, wStatus >>
       ELSE /\ wPc' = [wPc EXCEPT ![w] = "done"]
            /\ wStatus' = [wStatus EXCEPT ![w] = VerifyGallabox(h, fetched)]
  /\ UNCHANGED << conv, norm, cls, dest, boot, row1, rev, budget, directMessages, now, store, sheet,
                  wEvent, wSession, wAttr, wUtm, wAfter, lastWriter, schedVars, listenVars, nFail >>

\* next(): the handler runs
Handle(w, e) == auth.pass[w] = "next" /\ WebhookReceive(w, e)

NextAuth ==
  \/ Tick
  \/ \E id \in SessionIds \cup {NoVal}, src \in {NoVal, "direct_message"} : StoreClick(id, src)
  \/ \E w \in W, h \in Headers, fetched \in BOOLEAN : Verify(w, h, fetched)
  \/ \E w \in W, e \in EventsOf(rev) : Handle(w, e)
  \/ \E w \in W : WebhookCommit(w)

SpecAuth == InitAuth /\ [][NextAuth]_vars

\* ================================================================ claims
RowsOf(id) == Cardinality({ i \in 1..Len(sheet) : sheet[i] = id })

\* request w's commit transaction succeeds in this step
Commits(w) == wPc[w] = "commit" /\ wPc'[w] = "done" /\ wStatus'[w] = "processed"

\* C1 -- At-most-once engagement: a webhook commit to a session that already
\* has hasEngaged = true is a no-op; it leaves every field of the stored
\* session as the first commit left it.
C1_AtMostOnceEngagement ==
  [][ \A w \in W :
        (Commits(w) /\ wSession[w] \in DOMAIN store /\ store[wSession[w]].hasEngaged)
          => store'[wSession[w]] = store[wSession[w]] ]_vars

\* C2 -- Idempotent retry: when the identical event is processed a second time,
\* after the first was answered and with nothing else having changed the store
\* since, the store is left exactly as the first processing left it.
C2_IdempotentRetry ==
  [][ \A w \in W :
        (Commits(w) /\ \E v \in wAfter[w] :
                          /\ wEvent[v] = wEvent[w]
                          /\ wStatus[v] = "processed"
                          /\ lastWriter = v)
          => store' = store ]_vars

\* the export runs that still hold document id in their snapshot
HeldBy(id) ==
  { cb \in Callbacks : id \in lSnap[cb] } \cup (IF id \in sSnap THEN {0} ELSE {})

\* C3 -- No export loss: a session is marked syncedToSheets = true only after
\* the append of its row succeeded, so once no export run holds it any more, a
\* session with syncedToSheets = true has at least one row in the sheet, even
\* when an append failed.
C3_NoExportLoss ==
  \A id \in DOMAIN store :
    (store[id].syncedToSheets /\ HeldBy(id) = {} /\ id \notin pending) => RowsOf(id) >= 1

\* the scheduled sync's batch.commit throws in this step
CommitThrows == sPc = "commit" /\ sPc' # "commit" /\ sResult'.count = NoCount

\* the scheduled sync's query returns in this step
QueryReturns == sPc = "query" /\ sPc' = "append"

\* C4 -- Export completeness under failure injection: a failed mark-as-synced
\* leaves the store as it was, so the appended records are still unsynced; the
\* next query selects exactly the engaged records that are still unmarked; and
\* the sessions with a row in the sheet are never fewer than the sessions
\* marked synced.
C4_ExportCompleteness ==
  [][ /\ CommitThrows => store' = store /\ sPc' \in {"setup", "idle"}
      /\ QueryReturns =>
           /\ \A id \in sSnap' : store[id].hasEngaged /\ ~store[id].syncedToSheets
           /\ \A id \in DOMAIN store :
                (store[id].hasEngaged /\ ~store[id].syncedToSheets
                 /\ store[id].source \notin {NoVal, "direct_message"}) => id \in sSnap'
      /\ Cardinality({ id \in DOMAIN store' : store'[id].hasEngaged /\ RowsOf(id)' >= 1 })
           >= Cardinality({ id \in DOMAIN store' : store'[id].syncedToSheets }) ]_vars

\* the append succeeded, the commit threw, and the retry appended the record again
C4_Witness ==
  /\ sErr = "commit"
  /\ sPc = "commit"
  /\ \E id \in sSnap : RowsOf(id) = 2 /\ ~store[id].syncedToSheets

\* C5 -- No duplicate export absent failures: when no store or spreadsheet call
\* has failed, no session has more than one row in the sheet.
C5_NoDuplicateExport ==
  nFail = 0 => \A id \in DOMAIN store : RowsOf(id) <= 1

\* export runs between their store query and the end of their commit
RunsInFlight ==
  { cb \in Callbacks : lPc[cb] # "idle" } \cup
  (IF sPc \in {"append", "commit"} THEN {0} ELSE {})

\* C6 -- Sync mutual exclusion: at most one export run is in flight at any time.
C6_SyncMutualExclusion == Cardinality(RunsInFlight) <= 1

\* the token of request w decodes to a record with a non-empty session_id
HasContextSession(w) ==
  /\ wEvent[w].context.present
  /\ wEvent[w].context.valid
  /\ wEvent[w].context.session_id # NoVal

\* C7 -- Waterfall priority: a request that is resolved (not rejected for a
\* missing phone) and whose token decodes to a non-empty session_id resolves to
\* that session with attribution 'context', whatever the store holds.
C7_WaterfallPriority ==
  \A w \in W :
    (wPc[w] # "idle" /\ wStatus[w] # "400" /\ HasContextSession(w))
      => wSession[w] = wEvent[w].context.session_id /\ wAttr[w] = "context"

\* a context request carrying a contact id, while another, unengaged session is
\* inside the channel-identifier window
C7_Witness ==
  \E w \in W :
    /\ wPc[w] = "commit"
    /\ HasContextSession(w)
    /\ wEvent[w].contactId # NoVal
    /\ wAttr[w] = "context"
    /\ \E id \in GallaboxIdCandidates(store, now) : id # wSession[w]

\* request w's session is chosen in this step by the recent-click strategy
RecencyMatch(w) ==
  /\ wPc[w] # "commit"
  /\ wPc'[w] = "commit"
  /\ wAttr'[w] \in {"gallabox_id_match", "recent_click"}

\* C8 -- Recency bound: the strategy that matches a message to a recent
\* unengaged click never returns a session created more than 5 minutes before
\* the webhook is processed.
C8_RecencyBound ==
  [][ \A w \in W :
        RecencyMatch(w) => store[wSession'[w]].timestamp >= now - FiveMinutes ]_vars

\* C9 -- hasEngaged is monotonic: once a stored session has hasEngaged = true,
\* no step (store-click, webhook commit, sync) sets it back to false.
C9_EngagedMonotonic ==
  [][ \A id \in DOMAIN store :
        store[id].hasEngaged => store'[id].hasEngaged ]_vars

\* C10 -- The exported flag is monotonic: once a session has syncedToSheets =
\* true, no step sets it back to false.
C10_SyncedMonotonic ==
  [][ \A id \in DOMAIN store :
        store[id].syncedToSheets => store'[id].syncedToSheets ]_vars

\* C11 -- In every reachable state a session with syncedToSheets = true also
\* has hasEngaged = true.
C11_SyncedImpliesEngaged ==
  \A id \in DOMAIN store : store[id].syncedToSheets => store[id].hasEngaged

\* a sync run has marked a session
C11_Witness ==
  \E id \in DOMAIN store :
    store[id].syncedToSheets /\ store[id].hasEngaged /\ store[id].lastSynced # NoTime

\* a POST /store-click changes the store in this step: it is the only handler
\* that writes without moving a request, a sync run or a listener callback
StoreClickWrites ==
  store' # store /\ UNCHANGED << webVars, schedVars, listenVars >>

\* C12 -- Session creation is first-write-wins: a store-click creates an absent
\* session with hasEngaged = false and syncedToSheets = false, and changes no
\* field of a session that already exists.
C12_FirstWriteWins ==
  [][ StoreClickWrites =>
        /\ \A id \in DOMAIN store : store'[id] = store[id]
        /\ \A id \in DOMAIN store' \ DOMAIN store :
             ~store'[id].hasEngaged /\ ~store'[id].syncedToSheets ]_vars

\* request w takes a step of its handler
Moves(w) == wPc'[w] # wPc[w]

\* C13 -- A webhook event with no sender phone (absent, empty or only zeros) is
\* answered 400 and performs no write to the store.
C13_MissingPhoneRejected ==
  [][ \A w \in W :
        (Moves(w) /\ StripZeros(wEvent'[w].from) = NoPhone)
          => /\ store' = store
             /\ wPc'[w] = "done" => wStatus'[w] = "400" ]_vars

\* the token of event e is there but fails to decode, or decodes without a
\* session id
Malformed(e) ==
  e.context.present /\ (~e.context.valid \/ e.context.session_id = NoVal)

\* request w arrives in this step
Arrives(w) == wPc[w] = "idle" /\ wPc'[w] # "idle"

\* C14 -- A malformed context token is treated exactly like an absent one: the
\* request is not rejected, and it resolves as the same event without a token
\* resolves.
C14_MalformedTokenAsAbsent ==
  [][ \A w \in W :
        (Arrives(w) /\ wEvent'[w].kind = "Message.received"
         /\ Malformed(wEvent'[w]) /\ StripZeros(wEvent'[w].from) # NoPhone)
          => /\ wStatus'[w] # "400"
             /\ Resolve(wEvent'[w], store, now)
                  = Resolve([wEvent'[w] EXCEPT !.context = NoToken], store, now) ]_vars

\* the position of the scheduled sync inside one attempt
Rank(pc) == IF pc = "setup" THEN 0 ELSE IF pc = "query" THEN 1
            ELSE IF pc = "append" THEN 2 ELSE 3

\* an attempt of the scheduled sync fails in this step
AttemptFails == sPc # "idle" /\ nFail' = nFail + 1 /\ UNCHANGED << wPc, lPc, pending >>

\* the scheduled sync takes a step of its run
SyncMoves == sPc # "idle" /\ (sPc' # sPc \/ sAttempt' # sAttempt)

\* C15 -- Bounded retry with linear backoff: a run makes at most 3 attempts;
\* after the k-th failed attempt (k = 1, 2) it waits k * 2000 ms and starts the
\* next attempt; after the 3rd it stops without waiting, with the error; every
\* step of a run moves forward in (attempt, position) or ends the run with a
\* count or with the error, so the run terminates.
C15_BoundedRetry ==
  [][ /\ sAttempt' < 3
      /\ (AttemptFails /\ sAttempt + 1 < 3) =>
            /\ sPc' = "setup"
            /\ sAttempt' = sAttempt + 1
            /\ sWait' = (sAttempt + 1) * 2000
      /\ (AttemptFails /\ sAttempt + 1 = 3) =>
            sPc' = "idle" /\ sWait' = 0 /\ sErr' # NoVal /\ sResult'.count = NoCount
      /\ SyncMoves =>
            \/ sPc' # "idle" /\ 4 * sAttempt' + Rank(sPc') > 4 * sAttempt + Rank(sPc)
            \/ sPc' = "idle" /\ (sResult'.count # NoCount \/ sErr' # NoVal) ]_vars

\* the third attempt of a run has failed, after waits of 2000 and 4000 ms
C15_Witness == sPc = "idle" /\ sErr # NoVal /\ nFail = 3

\* C16 -- scheduledSync never throws and reports failures: when a run has ended
\* because its retries were exhausted, the result it returned contains the
\* failure in an error field.
C16_FailureReported ==
  (sPc = "idle" /\ sErr # NoVal) => (sResult # NoResult /\ sResult.error # NoVal)

\* request w is answered in this step
Responds(w) == wStatus[w] = NoVal /\ wStatus'[w] # NoVal

\* C17 -- Every webhook request receives exactly one response, and a 200 that
\* reports a commit is sent only when that commit has been applied: a handler
\* that has ended has answered, an answer is never replaced, and in the step
\* that sends the 200 the write it reports is in the store.
C17_ResponseAfterCommit ==
  [][ \A w \in W :
        /\ wPc'[w] = "done" => wStatus'[w] # NoVal
        /\ wStatus[w] # NoVal => wStatus'[w] = wStatus[w]
        /\ (Responds(w) /\ wStatus'[w] \in {"processed", "updated", "contact_matched"})
             => /\ wPc'[w] = "done"
                /\ wSession'[w] \in DOMAIN store'
                /\ store'[wSession'[w]].hasEngaged
        /\ (Responds(w) /\ wStatus'[w] = "direct_message")
             => wPc'[w] = "done" /\ w \in directMessages' ]_vars

\* C18: the export never overwrites sheet rows: every row that is in the sheet
\* before a step is in the same place, unchanged, after it, so the rows of a
\* run come after all the rows that were there
C18_NoOverwrite ==
  [][\A i \in 1..Len(sheet) : Len(sheet') >= i /\ sheet'[i] = sheet[i]]_vars

\* C20: direct engagements never reach the export: a record whose source is
\* 'direct_message' has no row in the sheet and is never marked
\* syncedToSheets by the sync
C20_DirectNeverExported ==
  \A id \in DOMAIN store :
    store[id].source = "direct_message" =>
      RowsOf(id) = 0 /\ ~store[id].syncedToSheets

\* C19: convertToSheetRows maps every exported document to one row of exactly
\* 14 values, none of them undefined, and a missing field gives its column
\* the documented default: 'N/A', 'direct', 'organic', 'none', 'none', 'N/A',
\* 'N/A' (engaged at), 'unknown', 'N/A', 'N/A', 'Anonymous', 'No text'
Absent(field) == conv.doc.original_params[field] = NoVal /\ conv.doc[field] = NoVal

C19_RowFallbacks ==
  (conv.done /\ conv.doc.source # "direct_message") =>
    /\ Len(conv.rows) = 1
    /\ Len(conv.rows[1]) = 14
    /\ \A i \in 1..14 : conv.rows[1][i] # NoVal
    /\ conv.doc.phoneNumber = NoVal => conv.rows[1][2] = "N/A"
    /\ Absent("source") => conv.rows[1][3] = "direct"
    /\ Absent("medium") => conv.rows[1][4] = "organic"
    /\ Absent("campaign") => conv.rows[1][5] = "none"
    /\ Absent("content") => conv.rows[1][6] = "none"
    /\ Absent("placement") => conv.rows[1][7] = "N/A"
    /\ conv.doc.engagedAt = NoVal => conv.rows[1][9] = "N/A"
    /\ conv.doc.attribution_source = NoVal => conv.rows[1][10] = "unknown"
    /\ conv.doc.contactId = NoVal => conv.rows[1][11] = "N/A"
    /\ conv.doc.conversationId = NoVal => conv.rows[1][12] = "N/A"
    /\ conv.doc.contactName = NoVal => conv.rows[1][13] = "Anonymous"
    /\ conv.doc.lastMessage = NoVal => conv.rows[1][14] = "No text"

\* ------------------------------------------------ the export under fairness
\* POST /scheduled-sync is invoked again and again and every awaited call of
\* a run returns; the failures of a behaviour are bounded by its budget, so
\* the store and spreadsheet calls eventually succeed
SpecLive ==
  /\ InitRetry
  /\ [][NextRetry]_vars
  /\ WF_vars(SyncStart)
  /\ WF_vars(SyncSetup)
  /\ WF_vars(SyncQuery)
  /\ WF_vars(SyncAppend)
  /\ WF_vars(SyncCommit)

Exportable(id) ==
  /\ id \in DOMAIN store
  /\ store[id].hasEngaged /\ ~store[id].syncedToSheets
  /\ store[id].source # "direct_message"

Exported(id) ==
  id \in DOMAIN store /\ store[id].syncedToSheets /\ RowsOf(id) >= 1

\* the append of the run in progress does not fit the sheet of the model
SheetFull ==
  sPc = "append" /\ Len(sheet) + Len(ConvertToSheetRows(sSnap, store)) > MaxRows

\* C21: every session that is engaged, not synced and not a direct message is
\* eventually appended to the sheet and marked synced (as long as the sheet
\* of the model has room), also after a run gave up and also when the
\* session's record has no source field
C21_EventualExport ==
  \A id \in SessionIds : Exportable(id) ~> (Exported(id) \/ SheetFull)

\* C22: in every state timestamp <= engagedAt <= lastSynced for the ones that
\* are present, and engagedAt and lastSynced are written once: a step never
\* changes one that is set
TimestampOrder(d) ==
  /\ d.engagedAt # NoTime => d.timestamp <= d.engagedAt
  /\ d.lastSynced # NoTime => d.timestamp <= d.lastSynced
  /\ (d.engagedAt # NoTime /\ d.lastSynced # NoTime) => d.engagedAt <= d.lastSynced

WrittenOnce(id) ==
  /\ id \in DOMAIN store'
  /\ store[id].engagedAt # NoTime => store'[id].engagedAt = store[id].engagedAt
  /\ store[id].lastSynced # NoTime => store'[id].lastSynced = store[id].lastSynced

C22_TimestampOrder ==
  /\ [](\A id \in DOMAIN store : TimestampOrder(store[id]))
  /\ [][\A id \in DOMAIN store : WrittenOnce(id)]_vars

\* event e carries no context token, or one that yields no session id
NoContextSession(e) ==
  ~(e.context.present /\ e.context.valid /\ e.context.session_id # NoVal)

\* C23: an event without a context session that carries a conversation or
\* contact id, arriving while a session with hasEngaged = false was created
\* within the last 5 minutes, resolves to the newest such session and goes to
\* the commit with the attribution 'gallabox_id_match'
C23_ChannelIdentifierMatch ==
  [][ \A w \in W :
        (Arrives(w) /\ NoContextSession(wEvent'[w]) /\ wEvent'[w].contactId # NoVal
         /\ StripZeros(wEvent'[w].from) # NoPhone
         /\ GallaboxIdCandidates(store, now) # {})
          => /\ wPc'[w] = "commit"
             /\ wSession'[w] = Newest(GallaboxIdCandidates(store, now), store)
             /\ wAttr'[w] = "gallabox_id_match" ]_vars

\* request w's session is chosen in this step by the phone strategy
PhoneMatch(w) ==
  /\ wAttr[w] \notin {"phone", "phone_match"}
  /\ wAttr'[w] \in {"phone", "phone_match"}

\* the sessions with hasEngaged = false and the phone number of session id
UnengagedWithPhoneOf(id) ==
  { o \in DOMAIN store : ~store[o].hasEngaged
                         /\ store[o].phoneNumber = store[id].phoneNumber }

\* C24: an event with no usable context token and no channel-identifier
\* candidate, arriving while sessions with hasEngaged = false hold the
\* normalized sender phone, resolves to the newest of them with the phone tag;
\* and a session chosen by the phone strategy always has hasEngaged = false
C24_PhoneMatch ==
  [][ \A w \in W :
        /\ (rev \in Part003Server /\ Arrives(w) /\ NoContextSession(wEvent'[w])
            /\ (wEvent'[w].contactId = NoVal \/ GallaboxIdCandidates(store, now) = {})
            /\ PhoneCandidates(store, NormalizePhone(wEvent'[w].from)) # {})
             => /\ wPc'[w] = "commit"
                /\ wSession'[w] =
                     Newest(PhoneCandidates(store, NormalizePhone(wEvent'[w].from)), store)
                /\ wAttr'[w] = "phone_match"
        /\ PhoneMatch(w)
             => /\ ~store[wSession'[w]].hasEngaged
                /\ wSession'[w] = Newest(UnengagedWithPhoneOf(wSession'[w]), store) ]_vars

\* event e carries a sender phone and nothing else to match on
PhoneOnly(e) ==
  /\ e.kind = "Message.received"
  /\ ~e.context.present
  /\ e.contactId = NoVal
  /\ StripZeros(e.from) # NoPhone

\* C25: a webhook that carries only a sender phone is not attributed to a
\* stored session that has hasEngaged = false and no phoneNumber: no step of
\* the request resolves to such a session or changes it
C25_PhoneOnlyNotAttributed ==
  [][ \A w \in W :
        (Moves(w) /\ PhoneOnly(wEvent'[w]))
          => \A id \in DOMAIN store :
               (~store[id].hasEngaged /\ store[id].phoneNumber = NoPhone)
                 => /\ id \in DOMAIN store'
                    /\ store'[id] = store[id]
                    /\ wSession'[w] # id ]_vars

\* C26: the normalization strips the leading zeros and then prefixes '91'
\* exactly when what is left does not start with '91', and normalizing the
\* result again changes nothing
C26_NormalizeIdempotent ==
  norm.done =>
    /\ StripZeros(norm.raw) # NoPhone =>
         norm.out = IF StartsWith(StripZeros(norm.raw), CountryCode)
                      THEN StripZeros(norm.raw)
                      ELSE CountryCode \o StripZeros(norm.raw)
    /\ norm.again = norm.out

\* C27 as stated: for the sender phone '9198765432' the normalized phone is
\* '919198765432'
C27_ScenarioPhonePrefixed ==
  (norm.done /\ norm.raw = ScenarioPhone) => norm.out = CountryCode \o ScenarioPhone

\* C27, amended: the sender phone '9198765432' already starts with the country
\* code and is its own normalization, '9198765432'
C27_ScenarioPhoneKept ==
  (norm.done /\ norm.raw = ScenarioPhone) => norm.out = ScenarioPhone

C27_Witness == norm.done /\ norm.raw = ScenarioPhone /\ rev = "current"

\* C28: the resolution is read-only: a step of a webhook request that is not
\* its commit transaction leaves every session as it was
C28_ResolutionReadOnly ==
  [][ \A w \in W : (Moves(w) /\ wPc[w] # "commit") => store' = store ]_vars

\* a request that carries a contact id has been resolved to a stored session
\* and waits for its commit, the session's contact id not written yet
C28_Witness ==
  \E w \in W :
    /\ wPc[w] = "commit"
    /\ wEvent[w].contactId # NoVal
    /\ wSession[w] \in DOMAIN store
    /\ store[wSession[w]].contactId = NoVal

\* C29: a webhook request that ended with an error (500) has written nothing:
\* the document it would have created is not in the store, and the request
\* is not the one that changed the store last
C29_NoPartialDecision ==
  \A w \in W :
    wStatus[w] = "500" => (GenId(w) \notin DOMAIN store /\ lastWriter # w)

\* a stored value that is neither missing nor the placeholder of the handler
Populated(v) == v \notin {NoVal, "", "No text content"}

\* C30: a webhook commit for an event that lacks the contact id, or the
\* message text, leaves a populated contactId, or lastMessage, of the session
\* populated
C30_ConditionalEnrichment ==
  [][ \A w \in W :
        (Commits(w) /\ wSession[w] \in DOMAIN store)
          => /\ (wEvent[w].contactId = NoVal /\ Populated(store[wSession[w]].contactId))
                  => Populated(store'[wSession[w]].contactId)
             /\ (wEvent[w].text = NoVal /\ Populated(store[wSession[w]].lastMessage))
                  => Populated(store'[wSession[w]].lastMessage) ]_vars

\* request w is answered in this step
Finishes(w) == wPc[w] # "done" /\ wPc'[w] = "done"

\* event e is a received message with a sender phone whose context token
\* names a session of an advertisement
NamesSession(e) ==
  /\ e.kind = "Message.received"
  /\ StripZeros(e.from) # NoPhone
  /\ ~NoContextSession(e)
  /\ e.context.source # "direct_message"

\* C31: when the context token names a session that has no stored document and
\* no store call fails, the request is answered 200 and has created the
\* document with hasEngaged = true, syncedToSheets = false, the sender's phone
\* and the source carried by the token
C31_CreateOnMissingSession ==
  [][ \A w \in W :
        (Finishes(w) /\ nFail' = nFail /\ NamesSession(wEvent'[w])
         /\ wEvent'[w].context.session_id \notin DOMAIN store)
          => /\ wStatus'[w] \in {"processed", "updated"}
             /\ wEvent'[w].context.session_id \in DOMAIN store'
             /\ store'[wEvent'[w].context.session_id].hasEngaged
             /\ ~store'[wEvent'[w].context.session_id].syncedToSheets
             /\ store'[wEvent'[w].context.session_id].phoneNumber
                  \in {wEvent'[w].from, NormalizePhone(wEvent'[w].from)}
             /\ store'[wEvent'[w].context.session_id].source
                  = wEvent'[w].context.source ]_vars


\* a scheduled run returns its count in this step
RunEnds == sPc # "idle" /\ sPc' = "idle" /\ sResult'.success # "false"

\* C32: header setup is idempotent: after any number of sync runs row 1 of the
\* sheet is the header row, and a run writes the header only into an empty
\* row 1, never over a data row
C32_HeaderIdempotent ==
  /\ [][ RunEnds => row1' = "header" ]_vars
  /\ [][ (row1' = "header" /\ row1 # "header") => row1 \in {"absent", "empty"} ]_vars
  /\ [][ row1 = "header" => row1' = "header" ]_vars

\* C33: the result of scheduledSync has retryable = true whenever the error
\* of the last failed attempt had code 429 or a message containing 'quota'
C33_RetryableOnRateLimit ==
  (cls.done /\ cls.success = "false" /\ Retryable(cls.err)) => cls.retryable = "true"

\* C34: the connectivity check is attempted at most 3 times with 2000 ms
\* after each failure; an endpoint is registered only after an attempt
\* succeeded; when all 3 fail, no endpoint is registered and the server is
\* closed
C34_StartupCheck ==
  /\ boot.attempt <= 3
  /\ boot.waited <= 3 * 2000
  /\ boot.endpoints # {} => boot.connected
  /\ \A ep \in EndpointSet : boot.probes[ep] = "handled" => boot.connected
  /\ boot.waited = 3 * 2000 => (boot.endpoints = {} /\ ~boot.listening)

\* C35: one sender per session: once a session is engaged, no later step
\* replaces its phoneNumber by another sender's phone
C35_OneSenderPerSession ==
  [][ \A id \in DOMAIN store :
        (store[id].hasEngaged /\ id \in DOMAIN store' /\ store'[id].hasEngaged)
          => store'[id].phoneNumber = store[id].phoneNumber ]_vars

\* C36: after a webhook commit succeeds for session S, S has hasEngaged =
\* true and the sender's phone as phoneNumber, whatever the decoded context
\* token carries
C36_TokenCannotOverride ==
  [][ \A w \in W :
        (/\ Finishes(w)
         /\ wStatus'[w] \in {"processed", "updated"}
         /\ store' # store
         /\ wSession'[w] \in DOMAIN store')
          => /\ store'[wSession'[w]].hasEngaged
             /\ store'[wSession'[w]].phoneNumber \in
                   {wEvent'[w].from, NormalizePhone(wEvent'[w].from), AppPhone(wEvent'[w].from)} ]_vars

\* C37: destination independence: when the sync of the first database fails
\* after its retries, the sync of the second is still attempted in the same
\* invocation of syncToSheets
C37_DestinationIndependence ==
  (/\ dest.returned
   /\ dest.env = DatabaseSet
   /\ dest.results[Databases[1]].success = "false"
   /\ Databases[1] \in dest.attempted)
    => Databases[2] \in dest.attempted

\* the middleware decides on request w in this step, and w's header is
\* missing or differs from the secret
Rejects(w) ==
  auth.pass[w] = NoVal /\ auth'.pass[w] # NoVal /\ auth'.token[w] # GallaboxToken

\* C38 as stated: a request whose x-gallabox-token header is missing or differs
\* from the secret is answered 401 and leaves the store unchanged
C38_InvalidToken401 ==
  [][ \A w \in W :
        Rejects(w) => /\ wStatus'[w] = "401"
                      /\ store' = store
                      /\ directMessages' = directMessages ]_vars

\* C38: a request whose x-gallabox-token header is missing or differs from
\* the secret is answered 401, or 500 when the secret cannot be read; it never
\* reaches the handler and leaves the store unchanged
C38_InvalidTokenRejected ==
  /\ [][ \A w \in W :
          Rejects(w) => /\ wStatus'[w] = (IF auth'.cached THEN "401" ELSE "500")
                        /\ wPc'[w] = "done"
                        /\ store' = store
                        /\ directMessages' = directMessages ]_vars
  /\ [][ \A w \in W :
          (auth.pass[w] # NoVal /\ auth.token[w] # GallaboxToken)
            => /\ wPc'[w] = "done"
               /\ wStatus'[w] = wStatus[w]
               /\ wSession'[w] = NoVal ]_vars

C38_Witness ==
  \E w \in W : /\ auth.token[w] = NoVal
                /\ wStatus[w] = "401"
                /\ \E v \in W : wStatus[v] = "processed"

\* the column of the field in the rows of the deployment; part_006 has no
\* placement column
ColumnOf(field) ==
  IF field = "source" THEN 3
  ELSE IF field = "medium" THEN 4
  ELSE IF field = "campaign" THEN 5
  ELSE IF field = "content" THEN 6
  ELSE 7

ExportedFields ==
  IF rev = "p006" THEN {"source", "medium", "campaign", "content"}
  ELSE {"source", "medium", "campaign", "content", "placement"}

\* C39: column precedence in convertToSheetRows: the exported value of source,
\* medium, campaign, content and placement is original_params.<field> when that
\* is non-empty, otherwise the document's top-level <field> when that is
\* non-empty, in every revision of the function
C39_ColumnPrecedence ==
  (conv.done /\ conv.rows # << >>) =>
    \A field \in ExportedFields :
      /\ conv.doc.original_params[field] \notin {NoVal, ""}
            => conv.rows[1][ColumnOf(field)] = conv.doc.original_params[field]
      /\ (conv.doc.original_params[field] \in {NoVal, ""} /\ conv.doc[field] \notin {NoVal, ""})
            => conv.rows[1][ColumnOf(field)] = conv.doc[field]

============================================================================
